---- MODULE Spec2Model ----
(***************************************************************************)
(* GeoTIFF writers of the sardine test scripts.                            *)
(*                                                                         *)
(* Four writers are modelled: the three copies of the tiled Float32 writer *)
(* (write_float32_geotiff_js_style in test-float32-geotiff.py and in       *)
(* test-sardine-pipeline.py, sardine_write in compare-writers.py) and the  *)
(* stripped RGBA writer write_minimal_geotiff (test-geotiff-georef.py).    *)
(*                                                                         *)
(* Representation choices                                                  *)
(*  - the output buffer is a sequence of bytes, offset o being index o+1;  *)
(*    a byte is a tuple: <<"b", n>> an integer byte n in 0..255,           *)
(*    <<"d", i, x>> byte i of the IEEE double x,                           *)
(*    <<"z", i, tx, ty>> byte i of the DEFLATE stream of tile (tx, ty),    *)
(*    <<"p", i>> byte i of the caller's RGBA pixel data;                   *)
(*  - a double is a record [s, m, e], the number s * m * 2^e, and the      *)
(*    arithmetic on doubles rounds as IEEE arithmetic does;                *)
(*  - a tile's float buffer is sparse: slots outside its DOMAIN hold the   *)
(*    0.0 of np.zeros; the pixel loops run on the sub-lattice ProbeSeq of  *)
(*    in-tile coordinates, which holds both edges of every tile drawn;     *)
(*  - zlib.compress is opaque: its output length is drawn per tile.        *)
(*                                                                         *)
(* Specifications                                                          *)
(*  - Spec: one call of a writer with valid arguments;                     *)
(*  - ExportSpec: an export handler of a script, the writer it calls, and  *)
(*    the checks the georeferencing script makes afterwards;               *)
(*  - CallSpec: one call of a writer, whatever its arguments;              *)
(*  - LargeSpec: a tiled writer on tiles that compress to gigabytes;       *)
(*  - DecimSpec: one decimation of a band by either decimator;             *)
(*  - MlSpec: the effective multilook loop, one pass per step.             *)
(***************************************************************************)
EXTENDS Integers, Sequences, FiniteSets, TLC

\* ---------------------------------------------------------------- bounds
MaxBands == 3
MinCompLen == 11
MaxCompLen == 12

\* ------------------------------------------------------ program constants
TAG_IMAGE_WIDTH == 256
TAG_IMAGE_LENGTH == 257
TAG_BITS_PER_SAMPLE == 258
TAG_COMPRESSION == 259
TAG_PHOTOMETRIC == 262
TAG_STRIP_OFFSETS == 273
TAG_SAMPLES_PER_PIXEL == 277
TAG_ROWS_PER_STRIP == 278
TAG_STRIP_BYTE_COUNTS == 279
TAG_PLANAR_CONFIG == 284
TAG_TILE_WIDTH == 322
TAG_TILE_LENGTH == 323
TAG_TILE_OFFSETS == 324
TAG_TILE_BYTE_COUNTS == 325
TAG_EXTRA_SAMPLES == 338
TAG_SAMPLE_FORMAT == 339
TAG_MODEL_PIXEL_SCALE == 33550
TAG_MODEL_TIEPOINT == 33922
TAG_GEO_KEY_DIRECTORY == 34735

TYPE_SHORT == 3
TYPE_LONG == 4
TYPE_DOUBLE == 12

TILE_SIZE == 512

KEY_GT_MODEL_TYPE == 1024
KEY_GT_RASTER_TYPE == 1025
KEY_PROJECTED_CS_TYPE == 3072
KEY_GEOGRAPHIC_TYPE == 2048
MODEL_TYPE_PROJECTED == 1
MODEL_TYPE_GEOGRAPHIC == 2
RASTER_TYPE_PIXEL_IS_AREA == 1

\* ------------------------------------------------------------ input sets
TiledWriters == {"float32", "pipeline", "compare"}
Writers == TiledWriters \cup {"minimal"}

\* <<width, height>> handed to the tiled writers (700 x 600 is the test raster)
TiledRasters == {<<1, 1>>, <<512, 512>>, <<513, 512>>, <<512, 600>>,
                 <<700, 1>>, <<700, 600>>}
\* <<width, height>> handed to the stripped writer
StripRasters == {<<1, 1>>, <<2, 1>>, <<2, 3>>}

\* <<bounds, epsg>>, bounds = [min_x, min_y, max_x, max_y]
GeoArgs == { <<<<434160, 9275760, 448160, 9287760>>, 32718>>,
             <<<<434160, 9275760, 448160, 9287760>>, 5000>>,
             <<<<434160, 9275760, 448160, 9287760>>, 3999>>,
             <<<<0, 10, 40, 70>>, 4326>>,
             <<<<0, 10, 40, 70>>, 4000>>,
             <<<<0, 10, 40, 70>>, 4999>>,
             <<<<10, 31, 55, 52>>, 4326>> }

\* in-tile pixel coordinates on which the pixel loops are run
ProbeSeq == <<0, 87, 187, 511>>

VARIABLES
    writer,            \* which writer runs
    width, height,     \* raster size
    num_bands,         \* len(band_names); 4 samples in the stripped writer
    bounds,            \* the bounds argument
    epsg_code,         \* the coordinate-system code argument
    pc,                \* position of the run inside the writer
    ty, tx,            \* the tile loop counters
    rgba_len,          \* len(rgba_data), stripped writer
    compressed_tiles,  \* list of [tx, ty, raw, byteCount], in append order
    entries,           \* the IFD entry list
    layout,            \* the offsets computed by the layout step
    buf,               \* the output bytearray
    pos,               \* the IFD write cursor after the entry loop
    ptrs,              \* overflow pointers written, by tag
    file,              \* bytes written to path (<<>>: nothing written)
    h5,                \* the grid metadata of the HDF5 file an export reads
    ml,                \* the multilook factor asked for
    max_rows,          \* the row limit asked for (0: None)
    export_bounds,     \* the pixel-edge bounds computed by the export handler
    ds,                \* the source dataset a decimator reads
    out,               \* the decimated band
    oy, ox,            \* the output cell loop counters
    band_len,          \* the number of samples of each band handed to a writer
    test,              \* the reports of the checks a test script has made
    export_ml          \* effective_ml of test_nisar_pipeline as its loop runs

\* the variables of the export handlers, which no writer touches
xvars == <<h5, ml, max_rows, export_bounds, test, export_ml>>

\* the variables of the decimators
dvars == <<ds, out, oy, ox>>

vars == <<writer, width, height, num_bands, bounds, epsg_code, pc, ty, tx,
          rgba_len, compressed_tiles, entries, layout, buf, pos, ptrs, file,
          xvars, dvars, band_len>>

\* ------------------------------------------------------------- helpers
Min(a, b) == IF a < b THEN a ELSE b

\* mutant: floor division
FloorDiv(n, d) == n \div d

\* -(-n // d) of the source
CeilDiv(n, d) == -((-n) \div d)

\* range(n), on the lattice of in-tile coordinates
RangeSeq(n) == SelectSeq(ProbeSeq, LAMBDA c : c < n)

\* bands[band_names[b]][src_idx]: a distinct non-zero sample per (band, index)
BandSample(b, src_idx) == src_idx * num_bands + b + 1

tiles_x == CeilDiv(width, TILE_SIZE)
tiles_y == CeilDiv(height, TILE_SIZE)
num_tiles == tiles_x * tiles_y

\* ------------------------------------------------- floating point
\* A natural number of any size is a sequence of limbs, least significant
\* first, without leading zero limbs; a limb has 15 bits, so that the product
\* of two limbs fits the integers of the model checker.
LimbBits == 16 - 1
LimbBase == 2^LimbBits

RECURSIVE BitLen(_)
BitLen(n) == IF n = 0 THEN 0 ELSE 1 + BitLen(n \div 2)

RECURSIVE BigNorm(_)
BigNorm(a) ==
    IF a # <<>> /\ a[Len(a)] = 0 THEN BigNorm(SubSeq(a, 1, Len(a) - 1)) ELSE a

RECURSIVE BigFromInt(_)
BigFromInt(n) ==
    IF n = 0 THEN <<>> ELSE <<n % LimbBase>> \o BigFromInt(n \div LimbBase)

Limb(a, i) == IF i <= Len(a) THEN a[i] ELSE 0

RECURSIVE BigAddFrom(_, _, _, _)
BigAddFrom(a, b, i, carry) ==
    IF i > Len(a) /\ i > Len(b)
    THEN IF carry = 0 THEN <<>> ELSE <<carry>>
    ELSE LET t == Limb(a, i) + Limb(b, i) + carry
         IN  <<t % LimbBase>> \o BigAddFrom(a, b, i + 1, t \div LimbBase)

BigAdd(a, b) == BigAddFrom(a, b, 1, 0)

\* a - b, for a >= b
RECURSIVE BigSubFrom(_, _, _, _)
BigSubFrom(a, b, i, borrow) ==
    IF i > Len(a) THEN <<>>
    ELSE LET t == a[i] - Limb(b, i) - borrow
         IN  <<(t + LimbBase) % LimbBase>>
                \o BigSubFrom(a, b, i + 1, IF t < 0 THEN 1 ELSE 0)

BigSub(a, b) == BigNorm(BigSubFrom(a, b, 1, 0))

RECURSIVE BigCmpFrom(_, _, _)
BigCmpFrom(a, b, i) ==
    IF i = 0 THEN 0
    ELSE IF a[i] # b[i] THEN (IF a[i] < b[i] THEN -1 ELSE 1)
    ELSE BigCmpFrom(a, b, i - 1)

\* -1, 0, 1 as a < b, a = b, a > b
BigCmp(a, b) ==
    IF Len(a) # Len(b) THEN (IF Len(a) < Len(b) THEN -1 ELSE 1)
    ELSE BigCmpFrom(a, b, Len(a))

RECURSIVE BigMulFrom(_, _, _, _)
BigMulFrom(a, k, i, carry) ==
    IF i > Len(a) THEN BigFromInt(carry)
    ELSE LET t == a[i] * k + carry
         IN  <<t % LimbBase>> \o BigMulFrom(a, k, i + 1, t \div LimbBase)

\* a * k, for 0 <= k < LimbBase
BigMulSmall(a, k) == BigNorm(BigMulFrom(a, k, 1, 0))

RECURSIVE BigDivFrom(_, _, _, _)
BigDivFrom(a, k, i, r) ==
    IF i = 0 THEN [q |-> <<>>, r |-> r]
    ELSE LET t == r * LimbBase + a[i]
             rest == BigDivFrom(a, k, i - 1, t % k)
         IN  [q |-> Append(rest.q, t \div k), r |-> rest.r]

\* quotient and remainder of a by k, for 0 < k < LimbBase
BigDivSmall(a, k) ==
    LET d == BigDivFrom(a, k, Len(a), 0) IN [q |-> BigNorm(d.q), r |-> d.r]

\* a * 2^n and a div 2^n
BigShl(a, n) ==
    IF a = <<>> THEN <<>>
    ELSE [i \in 1..(n \div LimbBits) |-> 0] \o BigMulSmall(a, 2^(n % LimbBits))
BigShr(a, n) ==
    IF n \div LimbBits >= Len(a) THEN <<>>
    ELSE BigDivSmall(SubSeq(a, n \div LimbBits + 1, Len(a)), 2^(n % LimbBits)).q

BigBitLen(a) ==
    IF a = <<>> THEN 0 ELSE LimbBits * (Len(a) - 1) + BitLen(a[Len(a)])
BigIsOdd(a) == a # <<>> /\ a[1] % 2 = 1

\* A binary floating-point number is [s, m, e]: the number s * m * 2^e with
\* s in {1, -1} and m odd (zero: m = <<>>, e = 0, s = 1). The exponent range
\* is not limited: no value of the model comes near overflow or underflow.
\* significand widths: a Python float (an IEEE double) and a numpy float32
DBL_MANT_DIG == 53
FLT_MANT_DIG == 24

FZero == [s |-> 1, m |-> <<>>, e |-> 0]

RECURSIVE FCanon(_, _, _)
FCanon(s, m, e) ==
    IF m = <<>> THEN FZero
    ELSE IF m[1] = 0 THEN FCanon(s, SubSeq(m, 2, Len(m)), e + LimbBits)
    ELSE IF m[1] % 2 = 0 THEN FCanon(s, BigShr(m, 1), e + 1)
    ELSE [s |-> s, m |-> m, e |-> e]

\* s * m * 2^e, plus a non-zero fraction of its last place when sticky, rounded
\* to p significant bits, ties to even
FRound(p, s, m, e, sticky) ==
    LET d == BigBitLen(m) - p
    IN  IF d <= 0 THEN FCanon(s, m, e)
        ELSE LET q == BigShr(m, d)
                 rem == BigSub(m, BigShl(q, d))
                 c == BigCmp(rem, BigShl(<<1>>, d - 1))
                 up == c > 0 \/ (c = 0 /\ (sticky \/ BigIsOdd(q)))
             IN  FCanon(s, IF up THEN BigAdd(q, <<1>>) ELSE q, e + d)

\* float(n) of an integer n
FFromInt(n) == FCanon(IF n < 0 THEN -1 ELSE 1, BigFromInt(IF n < 0 THEN -n ELSE n), 0)

FNeg(a) == IF a.m = <<>> THEN a ELSE [a EXCEPT !.s = -@]

\* a + b and a - b in p-bit arithmetic
FAdd(p, a, b) ==
    LET e0 == Min(a.e, b.e)
        ma == BigShl(a.m, a.e - e0)
        mb == BigShl(b.m, b.e - e0)
    IN  IF a.s = b.s THEN FRound(p, a.s, BigAdd(ma, mb), e0, FALSE)
        ELSE IF BigCmp(ma, mb) >= 0 THEN FRound(p, a.s, BigSub(ma, mb), e0, FALSE)
        ELSE FRound(p, b.s, BigSub(mb, ma), e0, FALSE)
FSub(p, a, b) == FAdd(p, a, FNeg(b))

\* a * k and a / k in p-bit arithmetic, k an integer with |k| < LimbBase, and
\* k # 0 for the division
FMulInt(p, a, k) ==
    FRound(p, IF k < 0 THEN -a.s ELSE a.s,
           BigMulSmall(a.m, IF k < 0 THEN -k ELSE k), a.e, FALSE)
FDivInt(p, a, k) ==
    LET ak == IF k < 0 THEN -k ELSE k
        sh == p + 2 + BitLen(ak)
        d == BigDivSmall(BigShl(a.m, sh), ak)
    IN  FRound(p, IF k < 0 THEN -a.s ELSE a.s, d.q, a.e - sh, d.r # 0)

\* comparisons, on the exact difference
FDiff(a, b) == FAdd(2^20, a, FNeg(b))
FLess(a, b) == FDiff(a, b).m # <<>> /\ FDiff(a, b).s = -1
FPositive(a) == a.m # <<>> /\ a.s = 1
FAbs(a) == [a EXCEPT !.s = 1]


\* ------------------------------------------------- step 1: tiles
tile_w(x0) == Min(TILE_SIZE, width - x0)
tile_h(y0) == Min(TILE_SIZE, height - y0)

src_idx(x0, y0, py, px) == (y0 + py) * width + (x0 + px)

\* mutant: the band count is left out of the destination index
dst_idx_planar(py, px) == py * TILE_SIZE + px

dst_idx(py, px) == (py * TILE_SIZE + px) * num_bands

\* tile_data[i] of a sparse float buffer (np.zeros where never stored)
Slot(tile_data, i) == IF i \in DOMAIN tile_data THEN tile_data[i] ELSE 0

\* the assignments of the pixel loops of tile (x0, y0), in execution order:
\* for py in range(tile_h): for px in range(tile_w): for b in range(num_bands)
TileWrites(x0, y0) ==
    LET pys == RangeSeq(tile_h(y0))
        pxs == RangeSeq(tile_w(x0))
        n   == Len(pys) * Len(pxs) * num_bands
    IN  [i \in 1..n |->
            LET b  == (i - 1) % num_bands
                q  == (i - 1) \div num_bands
                px == pxs[(q % Len(pxs)) + 1]
                py == pys[(q \div Len(pxs)) + 1]
            IN  <<dst_idx(py, px) + b, BandSample(b, src_idx(x0, y0, py, px))>>]

\* tile_data after the assignments `writes` ran in order on np.zeros:
\* a slot holds the value of the last assignment made to it
ApplyWrites(writes) ==
    [s \in {writes[i][1] : i \in DOMAIN writes} |->
        LET at == {i \in DOMAIN writes : writes[i][1] = s}
            last == CHOOSE i \in at : \A j \in at : j <= i
        IN  writes[last][2]]

\* the float buffer of tile (tx, ty) after the pixel loops
ExtractTile(txx, tyy) ==
    ApplyWrites(TileWrites(txx * TILE_SIZE, tyy * TILE_SIZE))

\* one iteration of the tile loops: extract, compress, append
\* the pixel loops of tile (x0, y0) reach a src_idx outside the band: IndexError
IndexRaises(x0, y0) ==
    /\ num_bands > 0
    /\ src_idx(x0, y0, tile_h(y0) - 1, tile_w(x0) - 1) >= band_len

CompressTile ==
    /\ pc = "tiles"
    /\ writer \in TiledWriters
    /\ ty < tiles_y
    /\ tiles_x > 0
    /\ IF IndexRaises(tx * TILE_SIZE, ty * TILE_SIZE)
       THEN /\ pc' = "error"
            /\ UNCHANGED <<compressed_tiles, tx, ty>>
       ELSE /\ \E n \in MinCompLen..MaxCompLen :
                 compressed_tiles' = Append(compressed_tiles,
                     [tx |-> tx, ty |-> ty, raw |-> ExtractTile(tx, ty), byteCount |-> n])
            /\ IF tx + 1 < tiles_x
                  THEN tx' = tx + 1 /\ ty' = ty
                  ELSE tx' = 0 /\ ty' = ty + 1
            /\ pc' = pc
    /\ UNCHANGED <<writer, width, height, num_bands, bounds, epsg_code,
                   rgba_len, entries, layout, buf, pos, ptrs, file>>
    /\ UNCHANGED <<xvars, dvars, band_len>>

\* compressed tile k's 'data': byteCount opaque bytes
TileData(k) ==
    [i \in 1..compressed_tiles[k].byteCount |->
        <<"z", i - 1, compressed_tiles[k].tx, compressed_tiles[k].ty>>]

\* ------------------------------------------------- step 2: IFD entries
Entry(tag, typ, count, values) ==
    [tag |-> tag, typ |-> typ, count |-> count, values |-> values]

\* the integer n as a double
Dbl(n) == FFromInt(n)

min_x == bounds[1]
min_y == bounds[2]
max_x == bounds[3]
\* mutant: the lower edge is taken for the upper edge
max_y_lower == bounds[2]

max_y == bounds[4]

\* mutant: the width is divided by the height
pixel_scale_x_by_height ==
    FDivInt(DBL_MANT_DIG, FSub(DBL_MANT_DIG, bounds[3], bounds[1]), height)

\* (max_x - min_x) / width and (max_y - min_y) / height
pixel_scale_x == FDivInt(DBL_MANT_DIG, FSub(DBL_MANT_DIG, max_x, min_x), width)
pixel_scale_y == FDivInt(DBL_MANT_DIG, FSub(DBL_MANT_DIG, max_y, min_y), height)

Repeat(v, n) == [i \in 1..n |-> v]

\* [t['byteCount'] for t in compressed_tiles]
ByteCounts == [k \in 1..Len(compressed_tiles) |-> compressed_tiles[k].byteCount]

\* test-float32-geotiff.py: entries in the order they are appended
EntriesFloat32 ==
    << Entry(TAG_IMAGE_WIDTH, TYPE_LONG, 1, <<width>>),
       Entry(TAG_IMAGE_LENGTH, TYPE_LONG, 1, <<height>>),
       Entry(TAG_BITS_PER_SAMPLE, TYPE_SHORT, num_bands, Repeat(32, num_bands)),
       Entry(TAG_COMPRESSION, TYPE_SHORT, 1, <<8>>),
       Entry(TAG_PHOTOMETRIC, TYPE_SHORT, 1, <<1>>),
       Entry(TAG_SAMPLES_PER_PIXEL, TYPE_SHORT, 1, <<num_bands>>),
       Entry(TAG_PLANAR_CONFIG, TYPE_SHORT, 1, <<1>>),
       Entry(TAG_TILE_WIDTH, TYPE_LONG, 1, <<TILE_SIZE>>),
       Entry(TAG_TILE_LENGTH, TYPE_LONG, 1, <<TILE_SIZE>>),
       Entry(TAG_TILE_OFFSETS, TYPE_LONG, num_tiles, Repeat(0, num_tiles)),
       Entry(TAG_TILE_BYTE_COUNTS, TYPE_LONG, num_tiles, ByteCounts),
       Entry(TAG_SAMPLE_FORMAT, TYPE_SHORT, num_bands, Repeat(3, num_bands)),
       Entry(TAG_MODEL_TIEPOINT, TYPE_DOUBLE, 6,
             <<Dbl(0), Dbl(0), Dbl(0), min_x, max_y, Dbl(0)>>),
       Entry(TAG_MODEL_PIXEL_SCALE, TYPE_DOUBLE, 3,
             <<pixel_scale_x, pixel_scale_y, Dbl(0)>>),
       Entry(TAG_GEO_KEY_DIRECTORY, TYPE_SHORT, 16,
             << 1, 1, 0, 3,
                KEY_GT_MODEL_TYPE, 0, 1, MODEL_TYPE_PROJECTED,
                KEY_GT_RASTER_TYPE, 0, 1, RASTER_TYPE_PIXEL_IS_AREA,
                KEY_PROJECTED_CS_TYPE, 0, 1, epsg_code >>) >>

\* test-sardine-pipeline.py: the entries list literal
EntriesPipeline ==
    << Entry(TAG_IMAGE_WIDTH, TYPE_LONG, 1, <<width>>),
       Entry(TAG_IMAGE_LENGTH, TYPE_LONG, 1, <<height>>),
       Entry(TAG_BITS_PER_SAMPLE, TYPE_SHORT, num_bands, Repeat(32, num_bands)),
       Entry(TAG_COMPRESSION, TYPE_SHORT, 1, <<8>>),
       Entry(TAG_PHOTOMETRIC, TYPE_SHORT, 1, <<1>>),
       Entry(TAG_SAMPLES_PER_PIXEL, TYPE_SHORT, 1, <<num_bands>>),
       Entry(TAG_PLANAR_CONFIG, TYPE_SHORT, 1, <<1>>),
       Entry(TAG_TILE_WIDTH, TYPE_LONG, 1, <<TILE_SIZE>>),
       Entry(TAG_TILE_LENGTH, TYPE_LONG, 1, <<TILE_SIZE>>),
       Entry(TAG_TILE_OFFSETS, TYPE_LONG, num_tiles, Repeat(0, num_tiles)),
       Entry(TAG_TILE_BYTE_COUNTS, TYPE_LONG, num_tiles, ByteCounts),
       Entry(TAG_SAMPLE_FORMAT, TYPE_SHORT, num_bands, Repeat(3, num_bands)),
       Entry(TAG_MODEL_TIEPOINT, TYPE_DOUBLE, 6,
             <<Dbl(0), Dbl(0), Dbl(0), min_x, max_y, Dbl(0)>>),
       Entry(TAG_MODEL_PIXEL_SCALE, TYPE_DOUBLE, 3,
             <<pixel_scale_x, pixel_scale_y, Dbl(0)>>),
       Entry(TAG_GEO_KEY_DIRECTORY, TYPE_SHORT, 16,
             << 1, 1, 0, 3,
                1024, 0, 1, 1,
                1025, 0, 1, 1,
                3072, 0, 1, epsg_code >>) >>

\* mutant: the copy in compare-writers.py declares unsigned samples
EntriesCompareUnsigned ==
    << Entry(TAG_IMAGE_WIDTH, TYPE_LONG, 1, <<width>>),
       Entry(TAG_IMAGE_LENGTH, TYPE_LONG, 1, <<height>>),
       Entry(TAG_BITS_PER_SAMPLE, TYPE_SHORT, num_bands, Repeat(32, num_bands)),
       Entry(TAG_COMPRESSION, TYPE_SHORT, 1, <<8>>),
       Entry(TAG_PHOTOMETRIC, TYPE_SHORT, 1, <<1>>),
       Entry(TAG_SAMPLES_PER_PIXEL, TYPE_SHORT, 1, <<num_bands>>),
       Entry(TAG_PLANAR_CONFIG, TYPE_SHORT, 1, <<1>>),
       Entry(TAG_TILE_WIDTH, TYPE_LONG, 1, <<TILE_SIZE>>),
       Entry(TAG_TILE_LENGTH, TYPE_LONG, 1, <<TILE_SIZE>>),
       Entry(TAG_TILE_OFFSETS, TYPE_LONG, Len(compressed_tiles),
             Repeat(0, Len(compressed_tiles))),
       Entry(TAG_TILE_BYTE_COUNTS, TYPE_LONG, Len(compressed_tiles), ByteCounts),
       Entry(TAG_SAMPLE_FORMAT, TYPE_SHORT, num_bands, Repeat(1, num_bands)),
       Entry(TAG_MODEL_TIEPOINT, TYPE_DOUBLE, 6,
             <<Dbl(0), Dbl(0), Dbl(0), min_x, max_y, Dbl(0)>>),
       Entry(TAG_MODEL_PIXEL_SCALE, TYPE_DOUBLE, 3,
             <<pixel_scale_x, pixel_scale_y, Dbl(0)>>),
       Entry(TAG_GEO_KEY_DIRECTORY, TYPE_SHORT, 16,
             << 1, 1, 0, 3,
                1024, 0, 1, 1,
                1025, 0, 1, 1,
                3072, 0, 1, epsg_code >>) >>

\* compare-writers.py: the list handed to sorted(); counts are len(tiles)
EntriesCompare ==
    << Entry(TAG_IMAGE_WIDTH, TYPE_LONG, 1, <<width>>),
       Entry(TAG_IMAGE_LENGTH, TYPE_LONG, 1, <<height>>),
       Entry(TAG_BITS_PER_SAMPLE, TYPE_SHORT, num_bands, Repeat(32, num_bands)),
       Entry(TAG_COMPRESSION, TYPE_SHORT, 1, <<8>>),
       Entry(TAG_PHOTOMETRIC, TYPE_SHORT, 1, <<1>>),
       Entry(TAG_SAMPLES_PER_PIXEL, TYPE_SHORT, 1, <<num_bands>>),
       Entry(TAG_PLANAR_CONFIG, TYPE_SHORT, 1, <<1>>),
       Entry(TAG_TILE_WIDTH, TYPE_LONG, 1, <<TILE_SIZE>>),
       Entry(TAG_TILE_LENGTH, TYPE_LONG, 1, <<TILE_SIZE>>),
       Entry(TAG_TILE_OFFSETS, TYPE_LONG, Len(compressed_tiles),
             Repeat(0, Len(compressed_tiles))),
       Entry(TAG_TILE_BYTE_COUNTS, TYPE_LONG, Len(compressed_tiles), ByteCounts),
       Entry(TAG_SAMPLE_FORMAT, TYPE_SHORT, num_bands, Repeat(3, num_bands)),
       Entry(TAG_MODEL_TIEPOINT, TYPE_DOUBLE, 6,
             <<Dbl(0), Dbl(0), Dbl(0), min_x, max_y, Dbl(0)>>),
       Entry(TAG_MODEL_PIXEL_SCALE, TYPE_DOUBLE, 3,
             <<pixel_scale_x, pixel_scale_y, Dbl(0)>>),
       Entry(TAG_GEO_KEY_DIRECTORY, TYPE_SHORT, 16,
             << 1, 1, 0, 3,
                1024, 0, 1, 1,
                1025, 0, 1, 1,
                3072, 0, 1, epsg_code >>) >>

\* test-geotiff-georef.py: the geo key directory of write_minimal_geotiff
\* mutant: the upper end of the geographic range is included
is_geographic_incl == 4000 <= epsg_code /\ epsg_code <= 5000

is_geographic == 4000 <= epsg_code /\ epsg_code < 5000
model_type == IF is_geographic THEN MODEL_TYPE_GEOGRAPHIC ELSE MODEL_TYPE_PROJECTED
cs_key == IF is_geographic THEN KEY_GEOGRAPHIC_TYPE ELSE KEY_PROJECTED_CS_TYPE
geo_keys ==
    << 1, 1, 0, 3,
       KEY_GT_MODEL_TYPE, 0, 1, model_type,
       KEY_GT_RASTER_TYPE, 0, 1, RASTER_TYPE_PIXEL_IS_AREA,
       cs_key, 0, 1, epsg_code >>

\* test-geotiff-georef.py: entries in the order they are appended
EntriesMinimal ==
    << Entry(TAG_IMAGE_WIDTH, TYPE_LONG, 1, <<width>>),
       Entry(TAG_IMAGE_LENGTH, TYPE_LONG, 1, <<height>>),
       Entry(TAG_BITS_PER_SAMPLE, TYPE_SHORT, 4, <<8, 8, 8, 8>>),
       Entry(TAG_COMPRESSION, TYPE_SHORT, 1, <<1>>),
       Entry(TAG_PHOTOMETRIC, TYPE_SHORT, 1, <<2>>),
       Entry(TAG_STRIP_OFFSETS, TYPE_LONG, 1, <<0>>),
       Entry(TAG_SAMPLES_PER_PIXEL, TYPE_SHORT, 1, <<4>>),
       Entry(TAG_ROWS_PER_STRIP, TYPE_LONG, 1, <<height>>),
       Entry(TAG_STRIP_BYTE_COUNTS, TYPE_LONG, 1, <<width * height * 4>>),
       Entry(TAG_PLANAR_CONFIG, TYPE_SHORT, 1, <<1>>),
       Entry(TAG_EXTRA_SAMPLES, TYPE_SHORT, 1, <<1>>),
       Entry(TAG_SAMPLE_FORMAT, TYPE_SHORT, 4, <<1, 1, 1, 1>>),
       Entry(TAG_MODEL_TIEPOINT, TYPE_DOUBLE, 6,
             <<Dbl(0), Dbl(0), Dbl(0), min_x, max_y, Dbl(0)>>),
       Entry(TAG_MODEL_PIXEL_SCALE, TYPE_DOUBLE, 3,
             <<pixel_scale_x, pixel_scale_y, Dbl(0)>>),
       Entry(TAG_GEO_KEY_DIRECTORY, TYPE_SHORT, Len(geo_keys), geo_keys) >>

\* the entry list of the running writer, before the sort
UnsortedEntries ==
    CASE writer = "float32"  -> EntriesFloat32
      [] writer = "pipeline" -> EntriesPipeline
      [] writer = "compare"  -> EntriesCompare
      [] writer = "minimal"  -> EntriesMinimal

\* list.sort(key=lambda e: e[0]) / sorted(...): a stable sort by tag
RECURSIVE InsertByTag(_, _)
InsertByTag(sorted, e) ==
    IF sorted = <<>> THEN <<e>>
    ELSE IF sorted[Len(sorted)].tag <= e.tag THEN Append(sorted, e)
    ELSE Append(InsertByTag(SubSeq(sorted, 1, Len(sorted) - 1), e),
                sorted[Len(sorted)])

RECURSIVE SortFrom(_, _, _)
SortFrom(sorted, es, i) ==
    IF i > Len(es) THEN sorted
    ELSE SortFrom(InsertByTag(sorted, es[i]), es, i + 1)

\* mutant: the sort is left out
SortNone(es) == es

SortByTag(es) == SortFrom(<<>>, es, 1)

\* step 2 of a writer: build the entries, then sort them by tag
\* mutant: the entries are built while tiles are still to be compressed
BuildEntriesEarly ==
    /\ pc \in {"entries", "tiles"}
    /\ entries' = SortByTag(UnsortedEntries)
    /\ pc' = "layout"
    /\ UNCHANGED <<writer, width, height, num_bands, bounds, epsg_code, ty, tx,
                   rgba_len, compressed_tiles, layout, buf, pos, ptrs, file>>
    /\ UNCHANGED <<xvars, dvars, band_len>>

BuildEntries ==
    /\ \/ pc = "entries"
       \/ pc = "tiles" /\ (ty >= tiles_y \/ tiles_x <= 0)
    /\ entries' = SortByTag(UnsortedEntries)
    /\ pc' = "layout"
    /\ UNCHANGED <<writer, width, height, num_bands, bounds, epsg_code, ty, tx,
                   rgba_len, compressed_tiles, layout, buf, pos, ptrs, file>>
    /\ UNCHANGED <<xvars, dvars, band_len>>

\* ------------------------------------------------- step 3: file layout
type_sizes(typ) ==
    CASE typ = TYPE_SHORT  -> 2
      [] typ = TYPE_LONG   -> 4
      [] typ = TYPE_DOUBLE -> 8

byte_size(e) == type_sizes(e.typ) * e.count

\* the overflow sizing loop: acc = [overflow_size, overflow_entries]
RECURSIVE OverflowLoop(_, _, _)
OverflowLoop(es, i, acc) ==
    IF i > Len(es) THEN acc
    ELSE IF byte_size(es[i]) > 4
         THEN LET sz == acc.overflow_size + byte_size(es[i])
              IN  OverflowLoop(es, i + 1,
                     [overflow_size    |-> IF sz % 2 # 0 THEN sz + 1 ELSE sz,
                      overflow_entries |-> Append(acc.overflow_entries, i)])
         ELSE OverflowLoop(es, i + 1, acc)

RECURSIVE SumByteCounts(_)
SumByteCounts(k) ==
    IF k = 0 THEN 0 ELSE compressed_tiles[k].byteCount + SumByteCounts(k - 1)

\* the offsets of the tiled writers
TiledLayout(es) ==
    LET header_size == 8
        ifd_size == 2 + Len(es) * 12 + 4
        ifd_offset == header_size
        ov == OverflowLoop(es, 1, [overflow_size |-> 0, overflow_entries |-> <<>>])
        overflow_offset == ifd_offset + ifd_size
        tile_data_offset == overflow_offset + ov.overflow_size
        total_tile_bytes == SumByteCounts(Len(compressed_tiles))
    IN  [ ifd_size |-> ifd_size, ifd_offset |-> ifd_offset,
          overflow_size |-> ov.overflow_size,
          overflow_entries |-> ov.overflow_entries,
          overflow_offset |-> overflow_offset,
          data_offset |-> tile_data_offset,
          data_size |-> total_tile_bytes,
          total_size |-> tile_data_offset + total_tile_bytes ]

\* the offsets of the stripped writer (data_offset is strip_offset)
MinimalLayout(es) ==
    LET header_size == 8
        ifd_size == 2 + Len(es) * 12 + 4
        ov == OverflowLoop(es, 1, [overflow_size |-> 0, overflow_entries |-> <<>>])
        ifd_offset == header_size
        overflow_offset == ifd_offset + ifd_size
        strip_offset == overflow_offset + ov.overflow_size
        strip_size == width * height * 4
    IN  [ ifd_size |-> ifd_size, ifd_offset |-> ifd_offset,
          overflow_size |-> ov.overflow_size,
          overflow_entries |-> ov.overflow_entries,
          overflow_offset |-> overflow_offset,
          data_offset |-> strip_offset,
          data_size |-> strip_size,
          total_size |-> strip_offset + strip_size ]

\* "Fix strip offset": the StripOffsets entry gets [strip_offset]
FixStripOffset(es, strip_offset) ==
    [i \in 1..Len(es) |->
        IF es[i].tag = TAG_STRIP_OFFSETS
        THEN Entry(es[i].tag, es[i].typ, es[i].count, <<strip_offset>>)
        ELSE es[i]]

PlanLayout ==
    /\ pc = "layout"
    /\ IF writer \in TiledWriters
       THEN /\ layout' = TiledLayout(entries)
            /\ UNCHANGED entries
       ELSE /\ layout' = MinimalLayout(entries)
            /\ entries' = FixStripOffset(entries, MinimalLayout(entries).data_offset)
    /\ pc' = "serialize"
    /\ UNCHANGED <<writer, width, height, num_bands, bounds, epsg_code, ty, tx,
                   rgba_len, compressed_tiles, buf, pos, ptrs, file>>
    /\ UNCHANGED <<xvars, dvars, band_len>>

\* ------------------------------------------------- step 4: serialization
\* little-endian bytes of struct formats '<H', '<I', '<d'
U16(v) == << <<"b", v % 256>>, <<"b", (v \div 256) % 256>> >>
U32(v) == << <<"b", v % 256>>, <<"b", (v \div 256) % 256>>,
             <<"b", (v \div 65536) % 256>>, <<"b", (v \div 16777216) % 256>> >>
F64(d) == [i \in 1..8 |-> <<"d", i - 1, d>>]

\* struct.error unless the value fits the format
FitsU16(v) == 0 <= v /\ v <= 65535
FitsU32(v) == 0 <= v /\ v \div 65536 <= 65535

RECURSIVE PutFrom(_, _, _, _)
PutFrom(b, off, bytes, i) ==
    IF Len(b) = 0 \/ i > Len(bytes) THEN b
    ELSE PutFrom([b EXCEPT ![off + i] = bytes[i]], off, bytes, i + 1)

\* struct.pack_into(fmt, buf, off, ...): raises unless the bytes fit the buffer.
\* st = [buf, pos, cur_overflow, ptrs, ok]; ok = FALSE once a write has raised
PackInto(st, off, bytes, fits) ==
    IF ~st.ok THEN st
    ELSE IF fits /\ 0 <= off /\ off + Len(bytes) <= Len(st.buf)
         THEN [st EXCEPT !.buf = PutFrom(@, off, bytes, 1)]
         ELSE [st EXCEPT !.ok = FALSE]

PackH(st, off, v) == PackInto(st, off, U16(v), FitsU16(v))
PackI(st, off, v) == PackInto(st, off, U32(v), FitsU32(v))
PackD(st, off, d) == PackInto(st, off, F64(d), TRUE)

\* struct.pack_into('<HHI', buf, pos, tag, typ, count)
PackEntryHead(st, e) ==
    PackInto(st, st.pos, U16(e.tag) \o U16(e.typ) \o U32(e.count),
             FitsU16(e.tag) /\ FitsU16(e.typ) /\ FitsU32(e.count))

\* the value loop of an overflow array: one pack per value, opos advancing
RECURSIVE PackValues(_, _, _, _)
PackValues(st, e, j, opos) ==
    IF ~st.ok \/ j > Len(e.values) THEN st
    ELSE CASE e.typ = TYPE_SHORT ->
                PackValues(PackH(st, opos, e.values[j]), e, j + 1, opos + 2)
           [] e.typ = TYPE_LONG ->
                PackValues(PackI(st, opos, e.values[j]), e, j + 1, opos + 4)
           [] e.typ = TYPE_DOUBLE ->
                PackValues(PackD(st, opos, e.values[j]), e, j + 1, opos + 8)

\* mutant: a pad byte is added after every block
EvenAlways(n) == n + 1

\* if cur_overflow % 2 != 0: cur_overflow += 1
Even(n) == IF n % 2 # 0 THEN n + 1 ELSE n

\* mutant: the overflow cursor does not advance past the values written
PackOverflowInPlace(st, e) ==
    LET s1 == PackI(st, st.pos, st.cur_overflow)
        s2 == PackValues(s1, e, 1, st.cur_overflow)
    IN  [s2 EXCEPT !.ptrs = Append(@, [tag |-> e.tag, ptr |-> st.cur_overflow])]

\* an overflow array: pointer in the value field, values at cur_overflow
PackOverflow(st, e) ==
    LET s1 == PackI(st, st.pos, st.cur_overflow)
        s2 == PackValues(s1, e, 1, st.cur_overflow)
    IN  [s2 EXCEPT !.cur_overflow = Even(st.cur_overflow + byte_size(e)),
                   !.ptrs = Append(@, [tag |-> e.tag, ptr |-> st.cur_overflow])]

\* the back-fill loop of the tile offsets: tile_pos accumulates the byte counts
RECURSIVE PackTileOffsets(_, _, _, _)
PackTileOffsets(st, j, cur, tile_pos) ==
    IF ~st.ok \/ j > Len(compressed_tiles) THEN [st EXCEPT !.cur_overflow = cur]
    ELSE PackTileOffsets(PackI(st, cur, tile_pos), j + 1, cur + 4,
                         tile_pos + compressed_tiles[j].byteCount)

\* mutant: the inline branch packs nothing
PackInlineNothing(st, e) == st

\* the inline branch of the tiled writers
PackInlineTiled(st, e) ==
    IF e.count = 1
    THEN IF e.typ = TYPE_SHORT THEN PackH(st, st.pos, e.values[1])
         ELSE IF e.typ = TYPE_LONG THEN PackI(st, st.pos, e.values[1])
         ELSE st
    ELSE IF e.count = 2 /\ e.typ = TYPE_SHORT
         THEN PackInto(st, st.pos, U16(e.values[1]) \o U16(e.values[2]),
                       FitsU16(e.values[1]) /\ FitsU16(e.values[2]))
         ELSE st

\* one iteration of the entry loop of the tiled writers
PackEntryTiled(st, e) ==
    LET s1 == PackEntryHead(st, e)
        s2 == [s1 EXCEPT !.pos = @ + 8]
    IN  IF byte_size(e) <= 4
        THEN [PackInlineTiled(s2, e) EXCEPT !.pos = @ + 4]
        ELSE IF e.tag = TAG_TILE_OFFSETS
        THEN LET s3 == PackI(s2, s2.pos, s2.cur_overflow)
                 s4 == PackTileOffsets(s3, 1, s2.cur_overflow, layout.data_offset)
             IN  [s4 EXCEPT !.pos = @ + 4,
                            !.cur_overflow = Even(@),
                            !.ptrs = Append(@, [tag |-> e.tag, ptr |-> s2.cur_overflow])]
        ELSE [PackOverflow(s2, e) EXCEPT !.pos = @ + 4]

\* the inline branch of the stripped writer
RECURSIVE PackInlineShorts(_, _, _, _)
PackInlineShorts(st, e, j, vpos) ==
    IF ~st.ok \/ j > Len(e.values) THEN st
    ELSE IF e.typ = TYPE_SHORT
         THEN PackInlineShorts(PackH(st, vpos, e.values[j]), e, j + 1, vpos + 2)
         ELSE PackInlineShorts(st, e, j + 1, vpos)

PackInlineMinimal(st, e) ==
    IF e.count = 1
    THEN IF e.typ = TYPE_SHORT THEN PackH(st, st.pos, e.values[1])
         ELSE IF e.typ = TYPE_LONG THEN PackI(st, st.pos, e.values[1])
         ELSE st
    ELSE PackInlineShorts(st, e, 1, st.pos)

\* one iteration of the entry loop of the stripped writer
PackEntryMinimal(st, e) ==
    LET s1 == PackEntryHead(st, e)
        s2 == [s1 EXCEPT !.pos = @ + 8]
    IN  IF byte_size(e) > 4
        THEN [PackOverflow(s2, e) EXCEPT !.pos = @ + 4]
        ELSE [PackInlineMinimal(s2, e) EXCEPT !.pos = @ + 4]

RECURSIVE PackEntries(_, _)
PackEntries(st, i) ==
    IF ~st.ok \/ i > Len(entries) THEN st
    ELSE PackEntries(IF writer \in TiledWriters
                     THEN PackEntryTiled(st, entries[i])
                     ELSE PackEntryMinimal(st, entries[i]), i + 1)

\* mutant: the next-IFD pointer is the offset of the directory itself
SerializeIFDSelfLink ==
    LET s0 == [ buf |-> [i \in 1..layout.total_size |-> <<"b", 0>>],
                pos |-> layout.ifd_offset, cur_overflow |-> layout.overflow_offset,
                ptrs |-> <<>>, ok |-> TRUE ]
        s1 == PackInto(s0, 0, << <<"b", 73>>, <<"b", 73>> >> \o U16(42)
                                 \o U32(layout.ifd_offset), TRUE)
        s2 == PackH(s1, s1.pos, Len(entries))
        s3 == PackEntries([s2 EXCEPT !.pos = @ + 2], 1)
    IN  PackI(s3, s3.pos, layout.ifd_offset)

\* bytearray(total_size), header, entry count, entries, next-IFD pointer
SerializeIFD ==
    LET s0 == [ buf |-> [i \in 1..layout.total_size |-> <<"b", 0>>],
                pos |-> layout.ifd_offset, cur_overflow |-> layout.overflow_offset,
                ptrs |-> <<>>, ok |-> TRUE ]
        s1 == PackInto(s0, 0, << <<"b", 73>>, <<"b", 73>> >> \o U16(42)
                                 \o U32(layout.ifd_offset), TRUE)
        s2 == PackH(s1, s1.pos, Len(entries))
        s3 == PackEntries([s2 EXCEPT !.pos = @ + 2], 1)
    IN  PackI(s3, s3.pos, 0)

Serialize ==
    /\ pc = "serialize"
    /\ LET st == SerializeIFD
       IN  /\ buf' = st.buf
           /\ pos' = st.pos
           /\ ptrs' = st.ptrs
           /\ pc' = IF st.ok THEN "payload" ELSE "error"
    /\ UNCHANGED <<writer, width, height, num_bands, bounds, epsg_code, ty, tx,
                   rgba_len, compressed_tiles, entries, layout, file>>
    /\ UNCHANGED <<xvars, dvars, band_len>>

\* buf[a:b] = data on a bytearray (the slice is clamped, the buffer may resize)
SliceAssign(b, lo, hi, data) ==
    LET a == Min(lo, Len(b))
        z == Min(IF hi < a THEN a ELSE hi, Len(b))
    IN  SubSeq(b, 1, a) \o data \o SubSeq(b, z + 1, Len(b))

\* mutant: tile_write_pos does not advance
RECURSIVE WriteTilesSamePos(_, _, _)
WriteTilesSamePos(b, k, tile_write_pos) ==
    IF k > Len(compressed_tiles) THEN b
    ELSE WriteTilesSamePos(SliceAssign(b, tile_write_pos,
                                tile_write_pos + compressed_tiles[k].byteCount,
                                TileData(k)),
                           k + 1, tile_write_pos)

\* the tile loop: each tile's data at tile_write_pos, which advances by byteCount
RECURSIVE WriteTiles(_, _, _)
WriteTiles(b, k, tile_write_pos) ==
    IF k > Len(compressed_tiles) THEN b
    ELSE WriteTiles(SliceAssign(b, tile_write_pos,
                                tile_write_pos + compressed_tiles[k].byteCount,
                                TileData(k)),
                    k + 1, tile_write_pos + compressed_tiles[k].byteCount)

\* bytes(rgba_data)
RgbaData == [i \in 1..rgba_len |-> <<"p", i - 1>>]

\* len(buf[lo:hi])
SliceLen(b, lo, hi) ==
    LET a == Min(lo, Len(b))
        z == Min(IF hi < a THEN a ELSE hi, Len(b))
    IN  z - a

\* mutant: the stripped writer's buffer may be resized like any bytearray
ResizeRaisesNever == FALSE

\* the stripped writer holds memoryview(buf): an assignment that would change
\* the length of buf raises BufferError
ResizeRaises ==
    /\ writer = "minimal"
    /\ rgba_len # SliceLen(buf, layout.data_offset,
                           layout.data_offset + layout.data_size)

WritePayload ==
    /\ pc = "payload"
    /\ IF ResizeRaises
       THEN /\ pc' = "error"
            /\ UNCHANGED buf
       ELSE /\ buf' = IF writer \in TiledWriters
                      THEN WriteTiles(buf, 1, layout.data_offset)
                      ELSE SliceAssign(buf, layout.data_offset,
                                       layout.data_offset + layout.data_size, RgbaData)
            /\ pc' = "file"
    /\ UNCHANGED <<writer, width, height, num_bands, bounds, epsg_code, ty, tx,
                   rgba_len, compressed_tiles, entries, layout, pos, ptrs, file>>
    /\ UNCHANGED <<xvars, dvars, band_len>>

\* mutant: the buffer is written out in a finally clause
WriteFileAlways ==
    /\ pc \in {"file", "error"}
    /\ file = <<>>
    /\ file' = buf
    /\ pc' = IF pc = "file" THEN "done" ELSE pc
    /\ UNCHANGED <<writer, width, height, num_bands, bounds, epsg_code, ty, tx,
                   rgba_len, compressed_tiles, entries, layout, buf, pos, ptrs>>
    /\ UNCHANGED <<xvars, dvars, band_len>>

\* with open(path, 'wb') as f: f.write(buf)
WriteFile ==
    /\ pc = "file"
    /\ file' = buf
    /\ pc' = "done"
    /\ UNCHANGED <<writer, width, height, num_bands, bounds, epsg_code, ty, tx,
                   rgba_len, compressed_tiles, entries, layout, buf, pos, ptrs>>
    /\ UNCHANGED <<xvars, dvars, band_len>>

\* ------------------------------------------------- the state machine
Init ==
    /\ writer \in Writers
    /\ IF writer \in TiledWriters
       THEN /\ \E r \in TiledRasters : width = r[1] /\ height = r[2]
            /\ num_bands \in 1..MaxBands
            /\ rgba_len = 0
            /\ pc = "tiles"
       ELSE /\ \E r \in StripRasters : width = r[1] /\ height = r[2]
            /\ num_bands = 4
            /\ rgba_len = width * height * 4
            /\ pc = "entries"
    /\ \E g \in GeoArgs : /\ bounds = [i \in 1..4 |-> Dbl(g[1][i])]
                         /\ epsg_code = g[2]
    /\ ty = 0
    /\ tx = 0
    /\ compressed_tiles = <<>>
    /\ entries = <<>>
    /\ layout = [total_size |-> 0]
    /\ buf = <<>>
    /\ pos = 0
    /\ ptrs = <<>>
    /\ file = <<>>
    /\ h5 = <<>>
    /\ ml = 0
    /\ max_rows = 0
    /\ export_bounds = <<>>
    /\ test = <<>>
    /\ export_ml = 0
    /\ ds = <<>>
    /\ out = <<>>
    /\ oy = 0
    /\ ox = 0
    /\ band_len = width * height

Next ==
    \/ CompressTile
    \/ BuildEntries
    \/ PlanLayout
    \/ Serialize
    \/ WritePayload
    \/ WriteFile

Spec == Init /\ [][Next]_vars

\* ---------------------------------------------------------------------------
\* The effective multilook loop of test_nisar_pipeline, one pass per step.

\* source widths and starting factors the loop is run on
SourceWidths == {0, 1, 8191, 8192, 8193, 16384, 16385, 16704, 24579, 32768,
                 65536, 65537, 131071, 1000000}
StartFactors == {1, 2, 3, 4, 8, 16}

\* mutant: the factor is multiplied by four
MlLoopQuadruple ==
    /\ pc = "ml_loop"
    /\ h5.width \div export_ml > 8192
    /\ export_ml' = export_ml * 4
    /\ UNCHANGED <<writer, width, height, num_bands, bounds, epsg_code, pc, ty, tx,
                   rgba_len, compressed_tiles, entries, layout, buf, pos, ptrs,
                   file, h5, ml, max_rows, export_bounds, test, dvars, band_len>>

\* while source_width // effective_ml > 8192: effective_ml *= 2
MlLoopDouble ==
    /\ pc = "ml_loop"
    /\ h5.width \div export_ml > 8192
    /\ export_ml' = export_ml * 2
    /\ UNCHANGED <<writer, width, height, num_bands, bounds, epsg_code, pc, ty, tx,
                   rgba_len, compressed_tiles, entries, layout, buf, pos, ptrs,
                   file, h5, ml, max_rows, export_bounds, test, dvars, band_len>>

\* the loop condition is false: export_width and export_height are set
MlLoopExit ==
    /\ pc = "ml_loop"
    /\ ~(h5.width \div export_ml > 8192)
    /\ width' = h5.width \div export_ml
    /\ height' = h5.height \div export_ml
    /\ pc' = "ml_done"
    /\ UNCHANGED <<writer, num_bands, bounds, epsg_code, ty, tx, rgba_len,
                   compressed_tiles, entries, layout, buf, pos, ptrs, file,
                   xvars, dvars, band_len>>

\* the state after `effective_ml = ml`
MlInit ==
    /\ writer = "pipeline"
    /\ \E w \in SourceWidths : h5 = [width |-> w, height |-> w]
    /\ ml \in StartFactors
    /\ export_ml = ml
    /\ pc = "ml_loop"
    /\ max_rows = 0
    /\ export_bounds = <<>>
    /\ test = <<>>
    /\ ds = <<>>
    /\ out = <<>>
    /\ oy = 0
    /\ ox = 0
    /\ width = 0
    /\ height = 0
    /\ num_bands = 0
    /\ bounds = <<>>
    /\ epsg_code = 0
    /\ rgba_len = 0
    /\ ty = 0
    /\ tx = 0
    /\ compressed_tiles = <<>>
    /\ entries = <<>>
    /\ layout = [total_size |-> 0]
    /\ buf = <<>>
    /\ pos = 0
    /\ ptrs = <<>>
    /\ file = <<>>
    /\ band_len = 0

MlNext ==
    \/ MlLoopDouble
    \/ MlLoopExit

\* the loop, every pass of which is taken when it can be
MlSpec == MlInit /\ [][MlNext]_vars /\ WF_vars(MlNext)

\* ------------------------------------------------- reading a written file
\* a little-endian reader of the bytes of f; offsets count from 0
ReadU16(f, off) == f[off + 1][2] + 256 * f[off + 2][2]
ReadU32(f, off) == f[off + 1][2] + 256 * f[off + 2][2]
                   + 65536 * f[off + 3][2] + 16777216 * f[off + 4][2]
AreInts(f, off, n) ==
    /\ off >= 0
    /\ off + n <= Len(f)
    /\ \A i \in 1..n : f[off + i][1] = "b"

\* directory entry i (from 1) of the IFD at offset 8
FileEntryCount(f) == ReadU16(f, 8)
FileEntryOff(i) == 8 + 2 + 12 * (i - 1)
FileTag(f, i) == ReadU16(f, FileEntryOff(i))
FileType(f, i) == ReadU16(f, FileEntryOff(i) + 2)
FileCount(f, i) == ReadU32(f, FileEntryOff(i) + 4)
FileValueField(f, i) == ReadU32(f, FileEntryOff(i) + 8)
FileHasTag(f, tag) == \E i \in 1..FileEntryCount(f) : FileTag(f, i) = tag
FileFind(f, tag) == CHOOSE i \in 1..FileEntryCount(f) : FileTag(f, i) = tag

\* value k (from 0) of the LONG array of entry i, as a reader resolves it:
\* in the value field when the array fits 4 bytes, else behind the pointer
FileLong(f, i, k) ==
    IF 4 * FileCount(f, i) <= 4 THEN ReadU32(f, FileEntryOff(i) + 8 + 4 * k)
    ELSE ReadU32(f, FileValueField(f, i) + 4 * k)
FileShort(f, i, k) ==
    IF 2 * FileCount(f, i) <= 4 THEN ReadU16(f, FileEntryOff(i) + 8 + 2 * k)
    ELSE ReadU16(f, FileValueField(f, i) + 2 * k)
\* the double k (from 0) behind the pointer of entry i, or <<>> when the 8
\* bytes there are not the bytes of one double
FileDouble(f, i, k) ==
    LET at == FileValueField(f, i) + 8 * k
    IN  IF /\ at + 8 <= Len(f)
           /\ \A j \in 1..8 : /\ f[at + j][1] = "d"
                               /\ f[at + j][2] = j - 1
                               /\ f[at + j][3] = f[at + 1][3]
        THEN f[at + 1][3]
        ELSE <<>>

\* ------------------------------------------------- the export handlers
\* the float literal n/d: the double nearest to it
Flt(n, d) == FDivInt(DBL_MANT_DIG, FFromInt(n), d)

\* the grids of two HDF5 files: first and last entry of xCoordinates and
\* yCoordinates, the two spacings as stored (y descends), len(x), len(y), the
\* projection and the number of polarization datasets
SceneUTM ==
    [ x_first |-> Flt(434170, 1), x_last |-> Flt(768230, 1),
      y_first |-> Flt(9601910, 1), y_last |-> Flt(9275770, 1),
      x_spacing |-> Flt(20, 1), y_spacing |-> Flt(-20, 1),
      width |-> 16704, height |-> 16308, epsg |-> 32718, pols |-> 2 ]
SceneGeographic ==
    [ x_first |-> Flt(1005, 100), x_last |-> Flt(2995, 100),
      y_first |-> Flt(5995, 100), y_last |-> Flt(4005, 100),
      x_spacing |-> Flt(1, 10), y_spacing |-> Flt(-1, 10),
      width |-> 200, height |-> 200, epsg |-> 4326, pols |-> 2 ]

\* <<script, file, ml, max_rows>>: the exports run
ExportRuns ==
    { <<"pipeline", SceneUTM, 4, 0>>, <<"pipeline", SceneUTM, 16, 0>>,
      <<"pipeline", SceneGeographic, 4, 0>>, <<"pipeline", SceneGeographic, 1, 0>>,
      <<"compare", SceneUTM, 16, 0>>, <<"compare", SceneUTM, 16, 50>>,
      <<"compare", SceneGeographic, 4, 0>>, <<"compare", SceneGeographic, 4, 7>>,
      <<"compare", SceneGeographic, 16, 0>>,
      <<"minimal", SceneUTM, 0, 0>>, <<"minimal", SceneGeographic, 0, 0>>,
      <<"float32", <<>>, 0, 0>> }

\* test-float32-geotiff.py: the test parameters
WIDTH == 700
HEIGHT == 600
NUM_BANDS == 3
EPSG == 32718
BOUNDS == <<Flt(434160, 1), Flt(9275760, 1), Flt(448160, 1), Flt(9287760, 1)>>

FMin(a, b) == IF FLess(b, a) THEN b ELSE a
FMax(a, b) == IF FLess(a, b) THEN b ELSE a

\* the pixel-center bounds: min and max of the first and last coordinate
MetaBounds ==
    << FMin(h5.x_first, h5.x_last), FMin(h5.y_first, h5.y_last),
       FMax(h5.x_first, h5.x_last), FMax(h5.y_first, h5.y_last) >>

\* abs(x_spacing), abs(y_spacing)
x_spacing == FAbs(h5.x_spacing)
y_spacing == FAbs(h5.y_spacing)

\* mutant: the whole spacing is taken off each side, as two corrections do
CorrectBoundsTwice(b, sx, sy) ==
    << FSub(DBL_MANT_DIG, b[1], sx), FSub(DBL_MANT_DIG, b[2], sy),
       FAdd(DBL_MANT_DIG, b[3], sx), FAdd(DBL_MANT_DIG, b[4], sy) >>

\* mutant: the top edge is moved down instead of up
CorrectBoundsInward(b, sx, sy) ==
    << FSub(DBL_MANT_DIG, b[1], FDivInt(DBL_MANT_DIG, sx, 2)),
       FSub(DBL_MANT_DIG, b[2], FDivInt(DBL_MANT_DIG, sy, 2)),
       FAdd(DBL_MANT_DIG, b[3], FDivInt(DBL_MANT_DIG, sx, 2)),
       FSub(DBL_MANT_DIG, b[4], FDivInt(DBL_MANT_DIG, sy, 2)) >>

\* [b[0] - sx / 2, b[1] - sy / 2, b[2] + sx / 2, b[3] + sy / 2]
CorrectBounds(b, sx, sy) ==
    << FSub(DBL_MANT_DIG, b[1], FDivInt(DBL_MANT_DIG, sx, 2)),
       FSub(DBL_MANT_DIG, b[2], FDivInt(DBL_MANT_DIG, sy, 2)),
       FAdd(DBL_MANT_DIG, b[3], FDivInt(DBL_MANT_DIG, sx, 2)),
       FAdd(DBL_MANT_DIG, b[4], FDivInt(DBL_MANT_DIG, sy, 2)) >>

\* while source_width // effective_ml > 8192: effective_ml *= 2
RECURSIVE EffectiveMl(_)
EffectiveMl(effective_ml) ==
    IF h5.width \div effective_ml > 8192
    THEN EffectiveMl(effective_ml * 2) ELSE effective_ml

\* mutant: the bottom edge of the whole box is kept
SubsetBottomKept(b, rows, full_rows) == b[2]

\* the bounds of the top `rows` rows of a box of `full_rows` rows
SubsetBottom(b, rows, full_rows) ==
    FSub(DBL_MANT_DIG, b[4],
         FMulInt(DBL_MANT_DIG,
                 FDivInt(DBL_MANT_DIG, FSub(DBL_MANT_DIG, b[4], b[2]), full_rows),
                 rows))

\* what every handler leaves alone when it calls its writer
HandlerFrame ==
    UNCHANGED <<writer, ty, tx, compressed_tiles, entries, layout, buf, pos,
                ptrs, file, h5, ml, max_rows, dvars, test, export_ml>>

\* test_nisar_pipeline up to the call of the writer
ExportPipeline ==
    /\ pc = "export"
    /\ writer = "pipeline"
    /\ \E effective_ml \in {EffectiveMl(ml)},
          eb \in {CorrectBounds(MetaBounds, x_spacing, y_spacing)} :
       LET export_width == h5.width \div effective_ml
           export_height == h5.height \div effective_ml
           max_export_rows == Min(export_height, 100)
       IN  /\ export_bounds' = eb
           /\ width' = export_width
           /\ height' = max_export_rows
           /\ bounds' = << eb[1], SubsetBottom(eb, max_export_rows, export_height),
                           eb[3], eb[4] >>
    /\ num_bands' = Min(3, h5.pols)
    /\ epsg_code' = h5.epsg
    /\ rgba_len' = 0
    /\ band_len' = width' * height'
    /\ pc' = "tiles"
    /\ HandlerFrame

\* main of compare-writers.py up to the call of sardine_write
ExportCompare ==
    /\ pc = "export"
    /\ writer = "compare"
    /\ \E peb \in {CorrectBounds(MetaBounds, x_spacing, y_spacing)} :
       LET ew == h5.width \div ml
           eh_full == h5.height \div ml
           h == IF max_rows # 0 THEN Min(eh_full, max_rows) ELSE eh_full
       IN  /\ export_bounds' = peb
           /\ width' = ew
           /\ height' = h
           /\ bounds' = IF h < eh_full
                        THEN <<peb[1], SubsetBottom(peb, h, eh_full), peb[3], peb[4]>>
                        ELSE peb
    /\ num_bands' = h5.pols
    /\ epsg_code' = h5.epsg
    /\ rgba_len' = 0
    /\ band_len' = width' * height'
    /\ pc' = "tiles"
    /\ HandlerFrame

\* main of test-geotiff-georef.py up to the call of write_minimal_geotiff
ExportGeoref ==
    /\ pc = "export"
    /\ writer = "minimal"
    /\ export_bounds' = CorrectBounds(MetaBounds, x_spacing, y_spacing)
    /\ bounds' = export_bounds'
    /\ width' = 64
    /\ height' = 64
    /\ rgba_len' = 64 * 64 * 4
    /\ num_bands' = 4
    /\ epsg_code' = h5.epsg
    /\ band_len' = 0
    /\ pc' = "entries"
    /\ HandlerFrame

\* main of test-float32-geotiff.py up to the call of the writer
ExportFloat32 ==
    /\ pc = "export"
    /\ writer = "float32"
    /\ export_bounds' = BOUNDS
    /\ bounds' = BOUNDS
    /\ width' = WIDTH
    /\ height' = HEIGHT
    /\ num_bands' = NUM_BANDS
    /\ epsg_code' = EPSG
    /\ rgba_len' = 0
    /\ band_len' = width' * height'
    /\ pc' = "tiles"
    /\ HandlerFrame

\* test-geotiff-georef.py, step 4: the multilook factors checked
MlChecked == <<1, 4, 8>>

\* abs(a - e) < limit
Within(a, e, limit) == FLess(FAbs(FSub(DBL_MANT_DIG, a, e)), limit)

\* one pass of `for ml in [1, 4, 8]` after the test file is written: the
\* pixel scale of an export of that multilook against native spacing * ml
ScaleCheck ==
    /\ pc = "done"
    /\ writer = "minimal"
    /\ Len(test) < Len(MlChecked)
    /\ LET m == MlChecked[Len(test) + 1]
           ew == IF m > 1 THEN h5.width \div m ELSE Min(h5.width, 4096)
           eh == IF m > 1 THEN h5.height \div m ELSE Min(h5.height, 4096)
       IN  IF ew = 0 \/ eh = 0
           THEN /\ pc' = "error"
                /\ test' = test
           ELSE /\ pc' = pc
                /\ \E ps_x_ml \in {FDivInt(DBL_MANT_DIG,
                                      FSub(DBL_MANT_DIG, export_bounds[3], export_bounds[1]), ew)},
                      ps_y_ml \in {FDivInt(DBL_MANT_DIG,
                                      FSub(DBL_MANT_DIG, export_bounds[4], export_bounds[2]), eh)},
                      expected_ps \in {FMulInt(DBL_MANT_DIG, x_spacing, m)} :
                      test' = Append(test,
                                [ ml |-> m, ew |-> ew, eh |-> eh,
                                  ps_x_ml |-> ps_x_ml, ps_y_ml |-> ps_y_ml,
                                  expected_ps |-> expected_ps,
                                  status |-> IF Within(ps_x_ml, expected_ps, Flt(1, 100))
                                             THEN "PASS" ELSE "FAIL" ])
    /\ UNCHANGED <<writer, width, height, num_bands, bounds, epsg_code, ty, tx,
                   rgba_len, compressed_tiles, entries, layout, buf, pos, ptrs,
                   file, h5, ml, max_rows, export_bounds, export_ml, dvars,
                   band_len>>

\* src.bounds of the file read back: the tiepoint is the upper-left corner,
\* the right and bottom edges lie width and height pixel scales from it
ActualBounds ==
    LET tie(k) == FileDouble(file, FileFind(file, TAG_MODEL_TIEPOINT), k)
        scale(k) == FileDouble(file, FileFind(file, TAG_MODEL_PIXEL_SCALE), k)
    IN  << tie(3),
           FSub(DBL_MANT_DIG, tie(4), FMulInt(DBL_MANT_DIG, scale(1), height)),
           FAdd(DBL_MANT_DIG, tie(3), FMulInt(DBL_MANT_DIG, scale(0), width)),
           tie(4) >>

\* all(abs(a - e) < 1.0 for a, e in zip(actual_bounds, expected_center))
CenterMatch(actual_bounds) ==
    \A k \in 1..4 : Within(actual_bounds[k], MetaBounds[k], Flt(1, 1))

\* test-geotiff-georef.py, step 5: checks 1 to 5 on the file read back
VerifyGeoref ==
    /\ pc = "done"
    /\ writer = "minimal"
    /\ Len(test) = Len(MlChecked)
    /\ \E actual_bounds \in {ActualBounds} :
       LET bounds_match == \A k \in 1..4 :
                               Within(actual_bounds[k], export_bounds[k], Flt(1, 1))
           center_match == CenterMatch(actual_bounds)
           origin_ok == /\ Within(actual_bounds[1], export_bounds[1], Flt(1, 100))
                        /\ Within(actual_bounds[4], export_bounds[4], Flt(1, 100))
           epsg_ok == FileShort(file, FileFind(file, TAG_GEO_KEY_DIRECTORY), 15)
                          = h5.epsg
           y_neg == FPositive(FileDouble(file,
                                  FileFind(file, TAG_MODEL_PIXEL_SCALE), 1))
       IN  test' = Append(test,
                     [ actual_bounds |-> actual_bounds,
                       epsg_ok |-> epsg_ok,
                       bounds_match |-> bounds_match,
                       center_match |-> center_match,
                       origin_ok |-> origin_ok,
                       y_neg |-> y_neg,
                       all_pass |-> /\ epsg_ok /\ bounds_match /\ ~center_match
                                    /\ origin_ok /\ y_neg ])
    /\ UNCHANGED <<writer, width, height, num_bands, bounds, epsg_code, pc, ty, tx,
                   rgba_len, compressed_tiles, entries, layout, buf, pos, ptrs,
                   file, h5, ml, max_rows, export_bounds, export_ml, dvars,
                   band_len>>

ExportInit ==
    /\ \E r \in ExportRuns :
          /\ writer = r[1]
          /\ h5 = r[2]
          /\ ml = r[3]
          /\ max_rows = r[4]
    /\ pc = "export"
    /\ width = 0
    /\ height = 0
    /\ num_bands = 0
    /\ bounds = <<>>
    /\ epsg_code = 0
    /\ rgba_len = 0
    /\ export_bounds = <<>>
    /\ test = <<>>
    /\ export_ml = 0
    /\ ds = <<>>
    /\ out = <<>>
    /\ oy = 0
    /\ ox = 0
    /\ ty = 0
    /\ tx = 0
    /\ compressed_tiles = <<>>
    /\ entries = <<>>
    /\ layout = [total_size |-> 0]
    /\ buf = <<>>
    /\ pos = 0
    /\ ptrs = <<>>
    /\ file = <<>>
    /\ band_len = 0

ExportNext ==
    \/ ExportPipeline
    \/ ExportCompare
    \/ ExportGeoref
    \/ ExportFloat32
    \/ ScaleCheck
    \/ VerifyGeoref
    \/ Next

\* an export: the handler, then the writer it calls
ExportSpec == ExportInit /\ [][ExportNext]_vars

\* ---------------------------------------------------------------------------
\* A writer called with arbitrary arguments.

\* the calls drawn:
\* <<width, height, num_bands, len(bands[name]), len(rgba_data), epsg_code>>
TiledCalls ==
    { <<513, 512, 1, 513 * 512, 0, 32718>>,     \* as the handlers call
      <<1, 1, 2, 1, 0, 4326>>,
      <<1, 1, 0, 1, 0, 32718>>,                 \* band_names = []
      <<513, 512, 0, 0, 0, 32718>>,
      <<513, 512, 1, 513 * 512 - 1, 0, 32718>>, \* bands one sample short
      <<1, 1, 1, 0, 0, 32718>>,                 \* empty bands
      <<1, 1, 1, 5, 0, 32718>>,                 \* bands too long
      <<0, 1, 1, 0, 0, 32718>>,
      <<1, 0, 1, 0, 0, 32718>>,
      <<-1, 1, 1, 1, 0, 32718>>,
      <<1, -1, 1, 1, 0, 32718>>,
      <<1, 1, 1, 1, 0, 70000>> }                \* no SHORT
MinimalCalls ==
    { <<2, 3, 4, 0, 24, 32718>>,                \* as the handler calls
      <<1, 1, 4, 0, 4, 4326>>,
      <<2, 1, 4, 0, 7, 32718>>,                 \* rgba_data too short
      <<2, 1, 4, 0, 9, 32718>>,                 \* rgba_data too long
      <<1, 1, 4, 0, 0, 32718>>,
      <<0, 1, 4, 0, 0, 32718>>,
      <<1, 0, 4, 0, 0, 32718>>,
      <<-1, -1, 4, 0, 4, 32718>>,
      <<1, 1, 4, 0, 4, 70000>> }

\* unpacking bounds and dividing by width and height
Start ==
    /\ pc = "start"
    /\ pc' = IF width = 0 \/ height = 0 THEN "error"
             ELSE IF writer \in TiledWriters THEN "tiles" ELSE "entries"
    /\ UNCHANGED <<writer, width, height, num_bands, bounds, epsg_code, ty, tx,
                   rgba_len, compressed_tiles, entries, layout, buf, pos, ptrs,
                   file>>
    /\ UNCHANGED <<xvars, dvars, band_len>>

\* zlib.compress raises (zlib.error, MemoryError)
CompressRaises ==
    /\ pc = "tiles"
    /\ writer \in TiledWriters
    /\ ty < tiles_y
    /\ tiles_x > 0
    /\ ~IndexRaises(tx * TILE_SIZE, ty * TILE_SIZE)
    /\ pc' = "error"
    /\ UNCHANGED <<writer, width, height, num_bands, bounds, epsg_code, ty, tx,
                   rgba_len, compressed_tiles, entries, layout, buf, pos, ptrs,
                   file>>
    /\ UNCHANGED <<xvars, dvars, band_len>>

CallInit ==
    /\ writer \in Writers
    /\ \E c \in IF writer \in TiledWriters THEN TiledCalls ELSE MinimalCalls :
          /\ width = c[1]
          /\ height = c[2]
          /\ num_bands = c[3]
          /\ band_len = c[4]
          /\ rgba_len = c[5]
          /\ epsg_code = c[6]
    /\ bounds = <<Dbl(434160), Dbl(9275760), Dbl(448160), Dbl(9287760)>>
    /\ pc = "start"
    /\ ty = 0
    /\ tx = 0
    /\ compressed_tiles = <<>>
    /\ entries = <<>>
    /\ layout = [total_size |-> 0]
    /\ buf = <<>>
    /\ pos = 0
    /\ ptrs = <<>>
    /\ file = <<>>
    /\ h5 = <<>>
    /\ ml = 0
    /\ max_rows = 0
    /\ export_bounds = <<>>
    /\ test = <<>>
    /\ export_ml = 0
    /\ ds = <<>>
    /\ out = <<>>
    /\ oy = 0
    /\ ox = 0

CallNext ==
    \/ Start
    \/ CompressRaises
    \/ Next

\* one call of a writer, whatever its arguments
CallSpec == CallInit /\ [][CallNext]_vars

\* ---------------------------------------------------------------------------
\* A tiled writer whose tiles compress to gigabytes.  Byte counts, tile offsets
\* and the total size are numbers of more than 32 bits here, kept as limb
\* sequences (BigAdd, BigCmp); of the buffer only the length is kept:
\* buf = [len |-> total_size], and so of the file.

\* 2^32, one more than the largest value of a struct 'I' field
BigTwo32 == BigShl(<<1>>, 32)

\* struct.pack_into('<I', ...) takes the value
BigFitsU32(n) == BigCmp(n, BigTwo32) < 0

\* <<width, height, num_bands>>: one tile of 4100 bands, two tiles of 2050
LargeCalls == { <<512, 512, 4100>>, <<513, 512, 2050>> }

\* len(compressed) of a tile
LargeLens ==
    { BigFromInt(100000),
      BigShl(<<1>>, 31),
      BigSub(BigTwo32, BigFromInt(100000)),
      BigSub(BigTwo32, <<1>>),
      BigTwo32 }

\* one iteration of the tile loops, the tile data left out
CompressLargeTile ==
    /\ pc = "tiles"
    /\ ty < tiles_y
    /\ tiles_x > 0
    /\ \E n \in LargeLens :
         compressed_tiles' = Append(compressed_tiles,
             [tx |-> tx, ty |-> ty, raw |-> <<>>, byteCount |-> n])
    /\ IF tx + 1 < tiles_x
          THEN tx' = tx + 1 /\ ty' = ty
          ELSE tx' = 0 /\ ty' = ty + 1
    /\ UNCHANGED <<writer, width, height, num_bands, bounds, epsg_code, pc,
                   rgba_len, entries, layout, buf, pos, ptrs, file>>
    /\ UNCHANGED <<xvars, dvars, band_len>>

\* the byteCounts of the first k tiles, added up
RECURSIVE BigSumByteCounts(_)
BigSumByteCounts(k) ==
    IF k = 0 THEN <<>>
    ELSE BigAdd(BigSumByteCounts(k - 1), compressed_tiles[k].byteCount)

\* step 3 of the tiled writers
PlanLargeLayout ==
    /\ pc = "layout"
    /\ \E ov \in {OverflowLoop(entries, 1,
                      [overflow_size |-> 0, overflow_entries |-> <<>>])} :
         layout' =
            [ ifd_size |-> 2 + Len(entries) * 12 + 4, ifd_offset |-> 8,
              overflow_size |-> ov.overflow_size,
              overflow_entries |-> ov.overflow_entries,
              overflow_offset |-> 8 + 2 + Len(entries) * 12 + 4,
              data_offset |-> 8 + 2 + Len(entries) * 12 + 4 + ov.overflow_size,
              data_size |-> BigSumByteCounts(Len(compressed_tiles)),
              total_size |->
                  BigAdd(BigFromInt(8 + 2 + Len(entries) * 12 + 4 + ov.overflow_size),
                         BigSumByteCounts(Len(compressed_tiles))) ]
    /\ pc' = "serialize"
    /\ UNCHANGED <<writer, width, height, num_bands, bounds, epsg_code, ty, tx,
                   rgba_len, compressed_tiles, entries, buf, pos, ptrs, file>>
    /\ UNCHANGED <<xvars, dvars, band_len>>

\* tile_pos when tile k (from 1) is reached in the TileOffsets loop
LargeTilePos(k) == BigAdd(BigFromInt(layout.data_offset), BigSumByteCounts(k - 1))

\* the struct.pack_into calls made for entry e all take their values
LargeEntryPacks(e) ==
    IF byte_size(e) <= 4
    THEN (e.count = 1 /\ e.tag = TAG_TILE_BYTE_COUNTS) => BigFitsU32(e.values[1])
    ELSE IF e.tag = TAG_TILE_OFFSETS
    THEN \A k \in 1..Len(compressed_tiles) : BigFitsU32(LargeTilePos(k))
    ELSE e.tag = TAG_TILE_BYTE_COUNTS =>
             \A k \in 1..Len(e.values) : BigFitsU32(e.values[k])

\* step 4 of the tiled writers: the buffer is allocated, header, IFD and
\* overflow are packed and the tile data copied in
SerializeLarge ==
    /\ pc = "serialize"
    /\ buf' = [len |-> layout.total_size]
    /\ pc' = IF \A i \in 1..Len(entries) : LargeEntryPacks(entries[i])
             THEN "file" ELSE "error"
    /\ UNCHANGED <<writer, width, height, num_bands, bounds, epsg_code, ty, tx,
                   rgba_len, compressed_tiles, entries, layout, pos, ptrs, file>>
    /\ UNCHANGED <<xvars, dvars, band_len>>

LargeInit ==
    /\ writer \in TiledWriters
    /\ \E c \in LargeCalls :
          /\ width = c[1]
          /\ height = c[2]
          /\ num_bands = c[3]
    /\ band_len = width * height
    /\ rgba_len = 0
    /\ epsg_code = 32718
    /\ bounds = <<Dbl(434160), Dbl(9275760), Dbl(448160), Dbl(9287760)>>
    /\ pc = "tiles"
    /\ ty = 0
    /\ tx = 0
    /\ compressed_tiles = <<>>
    /\ entries = <<>>
    /\ layout = [total_size |-> <<>>]
    /\ buf = <<>>
    /\ pos = 0
    /\ ptrs = <<>>
    /\ file = <<>>
    /\ h5 = <<>>
    /\ ml = 0
    /\ max_rows = 0
    /\ export_bounds = <<>>
    /\ test = <<>>
    /\ export_ml = 0
    /\ ds = <<>>
    /\ out = <<>>
    /\ oy = 0
    /\ ox = 0

LargeNext ==
    \/ CompressLargeTile
    \/ BuildEntries
    \/ PlanLargeLayout
    \/ SerializeLarge
    \/ WriteFile

\* one call of a tiled writer on bands that compress to gigabytes
LargeSpec == LargeInit /\ [][LargeNext]_vars

\* ---------------------------------------------------------------------------
\* The decimators: read_nisar_band_stripe and read_bands.  A sample is a
\* float32: a finite one is a record [s, m, e] as above, FInf is +inf and FNaN
\* is NaN.

FInf == [s |-> 1, m |-> <<>>, e |-> 1]
FNaN == [s |-> 0, m |-> <<>>, e |-> 0]

\* np.finfo(np.float32).max, (2^24 - 1) * 2^104
F32Max == FCanon(1, BigFromInt(2^FLT_MANT_DIG - 1), 128 - FLT_MANT_DIG)

\* n / 8 as a float32
F8(n) == FDivInt(FLT_MANT_DIG, FFromInt(n), 8)

\* source datasets, as rows of samples
GridMixed ==
    << <<F8(12), F8(0), F8(-16), FNaN, F8(24)>>,
       <<F8(4), F8(0), F8(0), F8(1), F8(24)>>,
       <<F8(0), F8(0), F8(56), F8(0), F8(24)>>,
       <<F8(0), F8(-16), F8(8), F8(16), F8(24)>>,
       <<F8(72), F8(72), F8(72), F8(72), F8(72)>> >>
GridInf ==
    << <<FInf, F8(0), F8(16), FInf>>,
       <<F8(0), FNaN, F8(8), F8(0)>>,
       <<F8(8), F8(8), F8(8), F8(8)>>,
       <<F8(0), F8(0), F8(-8), F8(4)>> >>
GridThin == << <<F8(8), F8(16), F8(24)>> >>
TallRows == 202
GridTall ==
    [y \in 1..TallRows |->
        CASE y % 3 = 0 -> <<F8(8), F8(0)>>
          [] y % 3 = 1 -> <<F8(0), F8(16)>>
          [] OTHER -> <<F8(4), F8(-8)>>]

\* the decimations drawn: <<script, dataset, ml, max_rows>>; max_rows is the
\* --rows argument of compare-writers.py, 0 for None
DecimRuns ==
    { <<"pipeline", GridMixed, 1, 0>>, <<"pipeline", GridMixed, 2, 0>>,
      <<"pipeline", GridInf, 1, 0>>, <<"pipeline", GridInf, 2, 0>>,
      <<"pipeline", GridTall, 2, 0>>, <<"pipeline", GridThin, 2, 0>>,
      <<"compare", GridMixed, 1, 0>>, <<"compare", GridMixed, 2, 0>>,
      <<"compare", GridMixed, 2, 1>>, <<"compare", GridMixed, 1, 3>>,
      <<"compare", GridMixed, 2, 5>>, <<"compare", GridInf, 2, 0>>,
      <<"compare", GridInf, 1, 2>>, <<"compare", GridTall, 2, 0>>,
      <<"compare", GridTall, 2, 50>>, <<"compare", GridThin, 2, 0>> }

\* block > 0
GreaterZero(v) == v = FInf \/ FPositive(v)

\* mutant: the block takes one more source row when there is one
BlockWithNextRow(sy0, sy1, sx0, sx1) ==
    [k \in 1..((Min(sy1 + 1, Len(ds)) - sy0) * (sx1 - sx0)) |->
        ds[sy0 + ((k - 1) \div (sx1 - sx0)) + 1][sx0 + ((k - 1) % (sx1 - sx0)) + 1]]

\* ds[sy0:sy1, sx0:sx1], in row-major order
Block(sy0, sy1, sx0, sx1) ==
    [k \in 1..((sy1 - sy0) * (sx1 - sx0)) |->
        ds[sy0 + ((k - 1) \div (sx1 - sx0)) + 1][sx0 + ((k - 1) % (sx1 - sx0)) + 1]]

\* the float32 sum of the first n of the samples, added up in order
RECURSIVE F32Sum(_, _)
F32Sum(samples, n) ==
    IF n = 0 THEN FZero
    ELSE IF samples[n] = FInf \/ F32Sum(samples, n - 1) = FInf THEN FInf
    ELSE FAdd(FLT_MANT_DIG, F32Sum(samples, n - 1), samples[n])

\* np.mean(valid) of a non-empty float32 array
Mean(valid) ==
    IF F32Sum(valid, Len(valid)) = FInf THEN FInf
    ELSE FDivInt(FLT_MANT_DIG, F32Sum(valid, Len(valid)), Len(valid))

\* np.nanmean: the mean of what is no NaN, NaN when there is none
NanMean(valid) == IF Len(valid) = 0 THEN FNaN ELSE Mean(valid)

\* np.nan_to_num(avg, nan=0.0): NaN becomes 0, +inf the largest float32
NanToNum(v) ==
    IF v = FNaN THEN FZero ELSE IF v = FInf THEN F32Max ELSE v

\* read_nisar_band_stripe as test_nisar_pipeline calls it, up to the loop
ReadStripeBegin ==
    /\ pc = "decimate"
    /\ writer = "pipeline"
    /\ \E effective_ml \in {EffectiveMl(ml)} :
          /\ width' = h5.width \div effective_ml
          /\ height' = Min(h5.height \div effective_ml, 100)
    /\ out' = [i \in 1..(width' * height') |-> FZero]
    /\ oy' = 0
    /\ ox' = 0
    /\ pc' = "stripe"
    /\ UNCHANGED <<writer, num_bands, bounds, epsg_code, ty, tx, rgba_len,
                   compressed_tiles, entries, layout, buf, pos, ptrs, file,
                   xvars, ds, band_len>>

\* one pass of the inner loop of read_nisar_band_stripe
ReadStripeCell ==
    /\ pc = "stripe"
    /\ oy < height
    /\ ox < width
    /\ \E effective_ml \in {EffectiveMl(ml)} :
       \E valid \in { SelectSeq(Block(oy * effective_ml,
                                      Min(oy * effective_ml + effective_ml, h5.height),
                                      ox * effective_ml,
                                      Min(ox * effective_ml + effective_ml, h5.width)),
                                GreaterZero) } :
          out' = IF Len(valid) > 0
                 THEN [out EXCEPT ![oy * width + ox + 1] = Mean(valid)]
                 ELSE out
    /\ IF ox + 1 < width
       THEN ox' = ox + 1 /\ oy' = oy
       ELSE ox' = 0 /\ oy' = oy + 1
    /\ UNCHANGED <<writer, width, height, num_bands, bounds, epsg_code, pc, ty,
                   tx, rgba_len, compressed_tiles, entries, layout, buf, pos,
                   ptrs, file, xvars, ds, band_len>>

\* the loops of read_nisar_band_stripe are over: return out
ReadStripeReturn ==
    /\ pc = "stripe"
    /\ oy >= height \/ width = 0
    /\ pc' = "decimated"
    /\ UNCHANGED <<writer, width, height, num_bands, bounds, epsg_code, ty, tx,
                   rgba_len, compressed_tiles, entries, layout, buf, pos, ptrs,
                   file, xvars, dvars, band_len>>

\* read_bands, for one polarization
ReadBands ==
    /\ pc = "decimate"
    /\ writer = "compare"
    /\ width' = h5.width \div ml
    /\ height' = IF max_rows # 0
                 THEN Min(h5.height \div ml, max_rows) ELSE h5.height \div ml
    /\ out' = [i \in 1..(width' * height') |->
                 NanToNum(NanMean(SelectSeq(
                     Block(((i - 1) \div width') * ml, ((i - 1) \div width') * ml + ml,
                           ((i - 1) % width') * ml, ((i - 1) % width') * ml + ml),
                     GreaterZero)))]
    /\ pc' = "decimated"
    /\ UNCHANGED <<writer, num_bands, bounds, epsg_code, ty, tx, rgba_len,
                   compressed_tiles, entries, layout, buf, pos, ptrs, file,
                   xvars, ds, oy, ox, band_len>>

DecimInit ==
    /\ \E r \in DecimRuns :
          /\ writer = r[1]
          /\ ds = r[2]
          /\ ml = r[3]
          /\ max_rows = r[4]
    /\ h5 = [width |-> Len(ds[1]), height |-> Len(ds)]
    /\ pc = "decimate"
    /\ out = <<>>
    /\ oy = 0
    /\ ox = 0
    /\ width = 0
    /\ height = 0
    /\ num_bands = 0
    /\ bounds = <<>>
    /\ epsg_code = 0
    /\ rgba_len = 0
    /\ export_bounds = <<>>
    /\ test = <<>>
    /\ export_ml = 0
    /\ ty = 0
    /\ tx = 0
    /\ compressed_tiles = <<>>
    /\ entries = <<>>
    /\ layout = [total_size |-> 0]
    /\ buf = <<>>
    /\ pos = 0
    /\ ptrs = <<>>
    /\ file = <<>>
    /\ band_len = 0

DecimNext ==
    \/ ReadStripeBegin
    \/ ReadStripeCell
    \/ ReadStripeReturn
    \/ ReadBands

\* one decimation of one band
DecimSpec == DecimInit /\ [][DecimNext]_vars

\* the offset of the first byte of compressed tile k in f, -1 when absent
PayloadAt(f, k) ==
    LET first == <<"z", 0, compressed_tiles[k].tx, compressed_tiles[k].ty>>
        at == {o \in 0..(Len(f) - 1) : f[o + 1] = first}
    IN  IF at = {} THEN -1 ELSE CHOOSE o \in at : \A q \in at : o <= q

\* all byteCount bytes of compressed tile k lie in f from offset o on
PayloadIsAt(f, k, o) ==
    /\ o >= 0
    /\ o + compressed_tiles[k].byteCount <= Len(f)
    /\ \A i \in 1..compressed_tiles[k].byteCount : f[o + i] = TileData(k)[i]

\* sum of the compressed lengths of tiles 1..k
RECURSIVE LenBefore(_)
LenBefore(k) == IF k = 0 THEN 0 ELSE compressed_tiles[k].byteCount + LenBefore(k - 1)

Tiled == writer \in TiledWriters
TilesBuilt == Tiled /\ pc \notin {"tiles", "entries"}
Written == pc = "done"

\* ------------------------------------------------- claims
\* raster coordinates on the lattice of the pixel loops
LatticeCoords(extent) ==
    {c \in {t * TILE_SIZE + ProbeSeq[i] :
                t \in 0..((extent - 1) \div TILE_SIZE), i \in DOMAIN ProbeSeq} :
        c < extent}

\* C1: sample (x, y) of band b is stored in tile (y div 512) * tilesX + (x div 512)
\* at float slot ((y mod 512) * 512 + (x mod 512)) * bandCount + b, and every
\* other float slot of every tile is zero
C1_TilePlacement ==
    TilesBuilt =>
        /\ \A x \in LatticeCoords(width), y \in LatticeCoords(height),
              b \in 0..(num_bands - 1) :
              LET k == (y \div TILE_SIZE) * CeilDiv(width, TILE_SIZE)
                       + (x \div TILE_SIZE)
                  s == ((y % TILE_SIZE) * TILE_SIZE + (x % TILE_SIZE)) * num_bands + b
              IN  /\ k + 1 \in DOMAIN compressed_tiles
                  /\ Slot(compressed_tiles[k + 1].raw, s) = (y * width + x) * num_bands + b + 1
        /\ \A k \in DOMAIN compressed_tiles :
              \A s \in DOMAIN compressed_tiles[k].raw :
                 \/ compressed_tiles[k].raw[s] = 0
                 \/ /\ s < TILE_SIZE * TILE_SIZE * num_bands
                    /\ \E x \in LatticeCoords(width), y \in LatticeCoords(height) :
                          /\ (y \div TILE_SIZE) * CeilDiv(width, TILE_SIZE)
                               + (x \div TILE_SIZE) = k - 1
                          /\ ((y % TILE_SIZE) * TILE_SIZE + (x % TILE_SIZE)) * num_bands
                               <= s
                          /\ s < ((y % TILE_SIZE) * TILE_SIZE + (x % TILE_SIZE) + 1)
                                   * num_bands

\* an edge tile of a multi-band raster has been extracted and the file written
C1_Witness ==
    /\ Written /\ Tiled
    /\ width = 700 /\ height = 600 /\ num_bands = 3
    /\ Len(compressed_tiles) = 4
    /\ Slot(compressed_tiles[4].raw, (87 * TILE_SIZE + 187) * 3 + 2) # 0
    /\ Slot(compressed_tiles[4].raw, (87 * TILE_SIZE + 511) * 3) = 0

\* C2: the value the file holds for TileOffsets slot k is the offset at which
\* tile k's compressed payload was written, tile_data_offset plus the
\* compressed lengths of the tiles before it
C2_TileOffsetsPointAtPayload ==
    (Written /\ Tiled) =>
        /\ FileHasTag(file, TAG_TILE_OFFSETS)
        /\ \A k \in DOMAIN compressed_tiles :
              LET i == FileFind(file, TAG_TILE_OFFSETS)
              IN  /\ FileLong(file, i, k - 1) = layout.data_offset + LenBefore(k - 1)
                  /\ PayloadIsAt(file, k, FileLong(file, i, k - 1))

\* C3: the tile-offset entry is always routed to overflow: the planner reserves
\* overflow space for it and its value field holds a pointer into the overflow
\* region
C3_TileOffsetsInOverflow ==
    (Written /\ Tiled) =>
        LET i == FileFind(file, TAG_TILE_OFFSETS)
        IN  /\ FileHasTag(file, TAG_TILE_OFFSETS)
            /\ \E j \in DOMAIN layout.overflow_entries :
                  entries[layout.overflow_entries[j]].tag = TAG_TILE_OFFSETS
            /\ \E j \in DOMAIN ptrs :
                  /\ ptrs[j].tag = TAG_TILE_OFFSETS
                  /\ ptrs[j].ptr = FileValueField(file, i)
            /\ layout.overflow_offset <= FileValueField(file, i)
            /\ FileValueField(file, i) + 4 * Len(compressed_tiles) <= layout.data_offset

\* C4: in every writer the entries written into the IFD are strictly ascending
\* by tag id, without duplicates; ModelPixelScale precedes ModelTiepoint
C4_EntriesAscending ==
    /\ pc \notin {"tiles", "entries"} =>
          \A i \in 1..(Len(entries) - 1) : entries[i].tag < entries[i + 1].tag
    /\ Written =>
          /\ FileEntryCount(file) = Len(UnsortedEntries)
          /\ \A i \in 1..(FileEntryCount(file) - 1) :
                FileTag(file, i) < FileTag(file, i + 1)
          /\ FileHasTag(file, TAG_MODEL_PIXEL_SCALE)
          /\ FileHasTag(file, TAG_MODEL_TIEPOINT)
          /\ FileFind(file, TAG_MODEL_PIXEL_SCALE) < FileFind(file, TAG_MODEL_TIEPOINT)

\* a file was written whose tiepoint was constructed before its pixel scale
C4_Witness ==
    /\ Written
    /\ writer = "minimal"
    /\ UnsortedEntries[13].tag = TAG_MODEL_TIEPOINT
    /\ UnsortedEntries[14].tag = TAG_MODEL_PIXEL_SCALE
    /\ FileTag(file, 13) = TAG_MODEL_PIXEL_SCALE
    /\ FileTag(file, 14) = TAG_MODEL_TIEPOINT

\* C5: header [0, 8), IFD [8, 8 + 2 + 12 n + 4), overflow region right after the
\* IFD, tile payloads right after the overflow region, concatenated in tile
\* index order; the file is as long as payload start plus the compressed lengths
C5_RegionsContiguous ==
    (Written /\ Tiled) =>
        /\ AreInts(file, 0, 8)
        /\ ReadU32(file, 4) = 8
        /\ layout.ifd_offset = 8
        /\ pos = 8 + 2 + 12 * FileEntryCount(file)
        /\ layout.overflow_offset = 8 + 2 + 12 * FileEntryCount(file) + 4
        /\ layout.data_offset = layout.overflow_offset + layout.overflow_size
        /\ ptrs # <<>> => ptrs[1].ptr = layout.overflow_offset
        /\ \A j \in DOMAIN ptrs :
              /\ layout.overflow_offset <= ptrs[j].ptr
              /\ ptrs[j].ptr < layout.data_offset
        /\ \A o \in 0..(layout.data_offset - 1) : file[o + 1][1] # "z"
        /\ \A k \in DOMAIN compressed_tiles :
              PayloadIsAt(file, k, layout.data_offset + LenBefore(k - 1))
        /\ Len(file) = layout.data_offset + LenBefore(Len(compressed_tiles))
        /\ Len(file) = layout.total_size

\* a four-tile file with tiles of different compressed lengths was written
C5_Witness ==
    /\ Written /\ Tiled
    /\ Len(compressed_tiles) = 4
    /\ compressed_tiles[1].byteCount # compressed_tiles[2].byteCount
    /\ PayloadAt(file, 4) = layout.data_offset + LenBefore(3)

\* C6: every overflow value block starts at an even offset: the pointer in the
\* value field of every entry stored in overflow is even
C6_OverflowPointersEven ==
    /\ \A j \in DOMAIN ptrs : ptrs[j].ptr % 2 = 0
    /\ Written =>
          \A i \in 1..FileEntryCount(file) :
             type_sizes(FileType(file, i)) * FileCount(file, i) > 4 =>
                FileValueField(file, i) % 2 = 0

\* a three-band, four-tile file: seven entries are stored in overflow
C6_Witness ==
    /\ Written /\ Tiled
    /\ num_bands = 3
    /\ Len(compressed_tiles) = 4
    /\ Len(ptrs) = 7
    /\ FileValueField(file, FileFind(file, TAG_GEO_KEY_DIRECTORY)) > layout.overflow_offset

\* C7: tags 324 and 325 both have count tilesX * tilesY, byte-count slot k is the
\* length of the payload written for tile k, offset[k] + byteCount[k] is
\* offset[k+1], and offset[last] + byteCount[last] is the file size
C7_OffsetsAndCountsChain ==
    (Written /\ Tiled) =>
        LET io == FileFind(file, TAG_TILE_OFFSETS)
            ic == FileFind(file, TAG_TILE_BYTE_COUNTS)
            n  == Len(compressed_tiles)
        IN  /\ FileHasTag(file, TAG_TILE_OFFSETS)
            /\ FileHasTag(file, TAG_TILE_BYTE_COUNTS)
            /\ FileCount(file, io) = tiles_x * tiles_y
            /\ FileCount(file, ic) = tiles_x * tiles_y
            /\ n = tiles_x * tiles_y
            /\ \A k \in 1..n :
                  /\ FileLong(file, ic, k - 1) = compressed_tiles[k].byteCount
                  /\ PayloadIsAt(file, k, FileLong(file, io, k - 1))
            /\ \A k \in 1..(n - 1) :
                  FileLong(file, io, k - 1) + FileLong(file, ic, k - 1)
                     = FileLong(file, io, k)
            /\ FileLong(file, io, n - 1) + FileLong(file, ic, n - 1) = Len(file)

\* the pixel columns (rows) of tile k stored on the lattice
ColsStored(k) ==
    {(s \div num_bands) % TILE_SIZE : s \in DOMAIN compressed_tiles[k].raw}
RowsStored(k) ==
    {(s \div num_bands) \div TILE_SIZE : s \in DOMAIN compressed_tiles[k].raw}
LatticeBelow(n) == {ProbeSeq[i] : i \in {j \in DOMAIN ProbeSeq : ProbeSeq[j] < n}}

\* C8: tilesX = ceil(width / 512), tilesY = ceil(height / 512), tiles are
\* produced in row-major order, tile (tx, ty) covers min(512, width - 512 tx) by
\* min(512, height - 512 ty) pixels, both at least 1; 700 x 600 gives 4 tiles,
\* tile (0,0) covering 512 x 512 and tile (1,1) covering 188 x 88 pixels
C8_TileGrid ==
    TilesBuilt =>
        /\ (tiles_x - 1) * TILE_SIZE < width /\ width <= tiles_x * TILE_SIZE
        /\ (tiles_y - 1) * TILE_SIZE < height /\ height <= tiles_y * TILE_SIZE
        /\ Len(compressed_tiles) = tiles_x * tiles_y
        /\ \A k \in DOMAIN compressed_tiles :
              LET t  == compressed_tiles[k]
                  cw == Min(TILE_SIZE, width - TILE_SIZE * t.tx)
                  ch == Min(TILE_SIZE, height - TILE_SIZE * t.ty)
              IN  /\ t.tx = (k - 1) % tiles_x
                  /\ t.ty = (k - 1) \div tiles_x
                  /\ cw >= 1 /\ ch >= 1
                  /\ tile_w(t.tx * TILE_SIZE) = cw
                  /\ tile_h(t.ty * TILE_SIZE) = ch
                  /\ ColsStored(k) = LatticeBelow(cw)
                  /\ RowsStored(k) = LatticeBelow(ch)
        /\ (width = 700 /\ height = 600) =>
              /\ Len(compressed_tiles) = 4
              /\ tile_w(0) = 512 /\ tile_h(0) = 512
              /\ tile_w(TILE_SIZE) = 188 /\ tile_h(TILE_SIZE) = 88
              /\ compressed_tiles[4].tx = 1 /\ compressed_tiles[4].ty = 1

\* the 700 x 600 raster has been tiled
C8_Witness ==
    /\ TilesBuilt
    /\ width = 700 /\ height = 600
    /\ Len(compressed_tiles) = 4
    /\ 187 \in ColsStored(4) /\ 511 \notin ColsStored(4)
    /\ 87 \in RowsStored(4) /\ 187 \notin RowsStored(4)

\* C9: write_minimal_geotiff: codes in [4000, 5000) give model type 2 and key
\* 2048 carrying the code, all other codes model type 1 and key 3072 carrying
\* the code; the raster type is 1 (pixel-is-area) and the header declares 3 keys
C9_GeoKeySelection ==
    (Written /\ writer = "minimal") =>
        LET i == FileFind(file, TAG_GEO_KEY_DIRECTORY)
            g(k) == FileShort(file, i, k)
            geographic == epsg_code >= 4000 /\ epsg_code <= 4999
        IN  /\ FileHasTag(file, TAG_GEO_KEY_DIRECTORY)
            /\ FileType(file, i) = 3
            /\ FileCount(file, i) = 16
            /\ AreInts(file, FileValueField(file, i), 32)
            /\ <<g(0), g(1), g(2), g(3)>> = <<1, 1, 0, 3>>
            /\ <<g(4), g(5), g(6)>> = <<1024, 0, 1>>
            /\ g(7) = IF geographic THEN 2 ELSE 1
            /\ <<g(8), g(9), g(10), g(11)>> = <<1025, 0, 1, 1>>
            /\ g(12) = IF geographic THEN 2048 ELSE 3072
            /\ <<g(13), g(14), g(15)>> = <<0, 1, epsg_code>>

\* the stripped writer has written a file for the boundary code 5000
C9_Witness ==
    /\ Written
    /\ writer = "minimal"
    /\ epsg_code = 5000
    /\ FileShort(file, FileFind(file, TAG_GEO_KEY_DIRECTORY), 12) = 3072

\* C10: in every writer the ModelTiepoint entry holds the six doubles
\* (0, 0, 0, minX, maxY, 0) of the bounds the writer was given
C10_TiepointUpperLeft ==
    Written =>
        LET i == FileFind(file, TAG_MODEL_TIEPOINT)
        IN  /\ FileHasTag(file, TAG_MODEL_TIEPOINT)
            /\ FileType(file, i) = 12
            /\ FileCount(file, i) = 6
            /\ [k \in 0..5 |-> FileDouble(file, i, k)]
                 = [k \in 0..5 |-> CASE k = 3 -> bounds[1]
                                      [] k = 4 -> bounds[4]
                                      [] OTHER -> FFromInt(0)]

\* a tiled file was written whose bounds have different lower and upper edges
C10_Witness ==
    /\ Written
    /\ writer = "compare"
    /\ bounds[2] # bounds[4]
    /\ FileDouble(file, FileFind(file, TAG_MODEL_TIEPOINT), 4) = bounds[4]

\* ValidInput: minX < maxX, minY < maxY, width >= 1, height >= 1
ValidInput ==
    /\ FLess(bounds[1], bounds[3])
    /\ FLess(bounds[2], bounds[4])
    /\ width >= 1
    /\ height >= 1

\* the three doubles of the ModelPixelScale entry of the written file
FilePixelScale(k) == FileDouble(file, FileFind(file, TAG_MODEL_PIXEL_SCALE), k)

\* what a reader computes from tiepoint and scale: the right edge
\* minX + width * scaleX and the bottom edge maxY - height * scaleY
RightEdge ==
    FAdd(DBL_MANT_DIG, FileDouble(file, FileFind(file, TAG_MODEL_TIEPOINT), 3),
         FMulInt(DBL_MANT_DIG, FilePixelScale(0), width))
BottomEdge ==
    FSub(DBL_MANT_DIG, FileDouble(file, FileFind(file, TAG_MODEL_TIEPOINT), 4),
         FMulInt(DBL_MANT_DIG, FilePixelScale(1), height))

\* the entry holds ((maxX - minX) / width, (maxY - minY) / height, 0), both
\* scales strictly positive
PixelScaleHeld ==
    /\ FileHasTag(file, TAG_MODEL_PIXEL_SCALE)
    /\ FileHasTag(file, TAG_MODEL_TIEPOINT)
    /\ FileType(file, FileFind(file, TAG_MODEL_PIXEL_SCALE)) = 12
    /\ FileCount(file, FileFind(file, TAG_MODEL_PIXEL_SCALE)) = 3
    /\ FilePixelScale(0)
          = FDivInt(DBL_MANT_DIG, FSub(DBL_MANT_DIG, bounds[3], bounds[1]), width)
    /\ FilePixelScale(1)
          = FDivInt(DBL_MANT_DIG, FSub(DBL_MANT_DIG, bounds[4], bounds[2]), height)
    /\ FilePixelScale(2) = FFromInt(0)
    /\ FPositive(FilePixelScale(0))
    /\ FPositive(FilePixelScale(1))

\* |a - b| <= 2^-50 * max(|lo|, |hi|)
WithinRounding(a, b, lo, hi) ==
    LET d == FAbs(FDiff(a, b))
        scaled == [d EXCEPT !.e = @ + 50]
        big == IF FLess(FAbs(lo), FAbs(hi)) THEN FAbs(hi) ELSE FAbs(lo)
    IN  ~FLess(big, scaled)

\* C11 (as stated): for every valid input the ModelPixelScale entry holds
\* ((maxX - minX)/width, (maxY - minY)/height, 0), both scales are strictly
\* positive, and tiepoint plus scale reconstruct the input bounds exactly:
\* minX + width * scaleX = maxX and maxY - height * scaleY = minY
C11_ReconstructsExactly ==
    (Written /\ ValidInput) =>
        /\ PixelScaleHeld
        /\ RightEdge = bounds[3]
        /\ BottomEdge = bounds[2]

\* C11 (amended): for every valid input the ModelPixelScale entry holds
\* ((maxX - minX)/width, (maxY - minY)/height, 0), both scales are strictly
\* positive, and tiepoint plus scale reconstruct the input bounds up to the
\* rounding of double arithmetic: minX + width * scaleX differs from maxX, and
\* maxY - height * scaleY from minY, by at most 2^-50 times the larger
\* magnitude of the two bounds of that axis
C11_ReconstructsWithinRounding ==
    (Written /\ ValidInput) =>
        /\ PixelScaleHeld
        /\ WithinRounding(RightEdge, bounds[3], bounds[1], bounds[3])
        /\ WithinRounding(BottomEdge, bounds[2], bounds[2], bounds[4])

\* a file was written for bounds whose right edge is not reconstructed exactly
C11_Witness ==
    /\ Written /\ ValidInput
    /\ width = 700
    /\ bounds[1] = FFromInt(10) /\ bounds[3] = FFromInt(55)
    /\ RightEdge # bounds[3]
    /\ FLess(RightEdge, bounds[3])

\* an export handler that corrects pixel-center bounds has run
Corrected == pc # "export" /\ writer \in {"pipeline", "compare", "minimal"}

\* how much wider and taller the corrected box is, as exact numbers
Widening ==
    FDiff(FDiff(export_bounds[3], export_bounds[1]), FDiff(MetaBounds[3], MetaBounds[1]))
Heightening ==
    FDiff(FDiff(export_bounds[4], export_bounds[2]), FDiff(MetaBounds[4], MetaBounds[2]))

\* the corrected bounds are (minX - sx/2, minY - sy/2, maxX + sx/2, maxY + sy/2),
\* and [434170, 9275770, 768230, 9601910] with spacing (20, 20) gives
\* [434160, 9275760, 768240, 9601920]
HalfPixelOutward ==
    /\ export_bounds[1]
          = FSub(DBL_MANT_DIG, MetaBounds[1], FDivInt(DBL_MANT_DIG, FAbs(h5.x_spacing), 2))
    /\ export_bounds[2]
          = FSub(DBL_MANT_DIG, MetaBounds[2], FDivInt(DBL_MANT_DIG, FAbs(h5.y_spacing), 2))
    /\ export_bounds[3]
          = FAdd(DBL_MANT_DIG, MetaBounds[3], FDivInt(DBL_MANT_DIG, FAbs(h5.x_spacing), 2))
    /\ export_bounds[4]
          = FAdd(DBL_MANT_DIG, MetaBounds[4], FDivInt(DBL_MANT_DIG, FAbs(h5.y_spacing), 2))
    /\ ( /\ MetaBounds = <<FFromInt(434170), FFromInt(9275770),
                           FFromInt(768230), FFromInt(9601910)>>
         /\ FAbs(h5.x_spacing) = FFromInt(20)
         /\ FAbs(h5.y_spacing) = FFromInt(20) )
        => export_bounds = <<FFromInt(434160), FFromInt(9275760),
                             FFromInt(768240), FFromInt(9601920)>>

\* C12 (as stated): on every export path that performs it the correction maps
\* (minX, minY, maxX, maxY), (sx, sy) to (minX - sx/2, minY - sy/2, maxX + sx/2,
\* maxY + sy/2); [434170, 9275770, 768230, 9601910] with (20, 20) gives
\* [434160, 9275760, 768240, 9601920]; the corrected box is wider by exactly sx
\* and taller by exactly sy
C12_WiderByExactlySpacing ==
    Corrected =>
        /\ HalfPixelOutward
        /\ Widening = FAbs(h5.x_spacing)
        /\ Heightening = FAbs(h5.y_spacing)

\* C12 (amended): the same mapping and example, computed in double arithmetic;
\* the corrected box is wider by sx and taller by sy up to the rounding of the
\* four edges: the widening differs from sx, and the heightening from sy, by at
\* most 2^-50 times the larger magnitude of the two corrected edges
C12_WiderBySpacingWithinRounding ==
    Corrected =>
        /\ HalfPixelOutward
        /\ WithinRounding(Widening, FAbs(h5.x_spacing),
                          export_bounds[1], export_bounds[3])
        /\ WithinRounding(Heightening, FAbs(h5.y_spacing),
                          export_bounds[2], export_bounds[4])

\* the pipeline export has corrected bounds whose spacing of 0.1 is no dyadic
\* number: the box did not widen by exactly the spacing
C12_Witness ==
    /\ Corrected
    /\ writer = "pipeline"
    /\ h5.x_spacing = Flt(1, 10)
    /\ export_bounds[1] = FSub(DBL_MANT_DIG, Flt(1005, 100), Flt(5, 100))
    /\ Widening # h5.x_spacing

\* the pixel-center bounds moved outward by half a pixel, once
OnceCorrected(k) ==
    CASE k = 1 -> FSub(DBL_MANT_DIG, MetaBounds[1], FDivInt(DBL_MANT_DIG, FAbs(h5.x_spacing), 2))
      [] k = 2 -> FSub(DBL_MANT_DIG, MetaBounds[2], FDivInt(DBL_MANT_DIG, FAbs(h5.y_spacing), 2))
      [] k = 3 -> FAdd(DBL_MANT_DIG, MetaBounds[3], FDivInt(DBL_MANT_DIG, FAbs(h5.x_spacing), 2))
      [] k = 4 -> FAdd(DBL_MANT_DIG, MetaBounds[4], FDivInt(DBL_MANT_DIG, FAbs(h5.y_spacing), 2))

\* the rows of the whole decimated grid of the export
FullRows ==
    CASE writer = "pipeline" -> h5.height \div EffectiveMl(ml)
      [] writer = "compare" -> h5.height \div ml
      [] OTHER -> height

\* the bounds the handler hands to its writer: the left, right and top edge are
\* the once-corrected ones, and so is the bottom edge when all rows are
\* exported (up to rounding where the handler recomputes it from the top edge);
\* bounds that are pixel-edge from the start are handed over as they are
HandedBounds ==
    IF writer = "float32"
    THEN bounds = <<FFromInt(434160), FFromInt(9275760),
                    FFromInt(448160), FFromInt(9287760)>>
    ELSE /\ bounds[1] = OnceCorrected(1)
         /\ bounds[3] = OnceCorrected(3)
         /\ bounds[4] = OnceCorrected(4)
         /\ writer = "minimal" => bounds[2] = OnceCorrected(2)
         /\ height = FullRows =>
                WithinRounding(bounds[2], OnceCorrected(2), bounds[2], bounds[4])
         /\ height < FullRows => FLess(OnceCorrected(2), bounds[2])
         /\ bounds[1] # MetaBounds[1] /\ bounds[3] # MetaBounds[3]
         /\ bounds[4] # MetaBounds[4]

\* the writer stores the bounds it was handed: origin (bounds[1], bounds[4])
\* and scale (bounds[3] - bounds[1]) / width
FileFromHandedBounds ==
    /\ FileDouble(file, FileFind(file, TAG_MODEL_TIEPOINT), 3) = bounds[1]
    /\ FileDouble(file, FileFind(file, TAG_MODEL_TIEPOINT), 4) = bounds[4]
    /\ FilePixelScale(0)
          = FDivInt(DBL_MANT_DIG, FSub(DBL_MANT_DIG, bounds[3], bounds[1]), width)
    /\ FilePixelScale(1)
          = FDivInt(DBL_MANT_DIG, FSub(DBL_MANT_DIG, bounds[4], bounds[2]), height)

\* C13: on every path from the pixel-center bounds of the source file to the
\* bounds handed to a writer the half-pixel correction is applied exactly once:
\* the handler applies it once before it calls the writer, no step of a writer
\* changes the bounds, and bounds given in pixel-edge convention reach the
\* writer uncorrected
C13_CorrectedExactlyOnce ==
    /\ [](pc # "export" => HandedBounds)
    /\ [](Written => FileFromHandedBounds)
    /\ [][ /\ (bounds' # bounds \/ export_bounds' # export_bounds)
                => (pc = "export" /\ pc' # "export")
           /\ pc' = "export" => pc = "export" ]_vars

\* the file of a row-subset export of the UTM scene was written, its origin
\* half a pixel outside the pixel centers
C13_Witness ==
    /\ Written
    /\ writer = "compare"
    /\ h5 = SceneUTM
    /\ height = 50 /\ height < FullRows
    /\ FileDouble(file, FileFind(file, TAG_MODEL_TIEPOINT), 3) = FFromInt(434160)
    /\ FileDouble(file, FileFind(file, TAG_MODEL_TIEPOINT), 4) = FFromInt(9601920)

\* the decimation of a band has returned
Decimated == pc = "decimated"

\* the source samples of rows [cy * ml, cy * ml + ml) and columns
\* [cx * ml, cx * ml + ml) that are greater than zero
PositiveOfCell(cy, cx) ==
    SelectSeq([k \in 1..(ml * ml) |->
                  ds[cy * ml + ((k - 1) \div ml) + 1][cx * ml + ((k - 1) % ml) + 1]],
              GreaterZero)

\* the sum of the samples, without rounding
RECURSIVE ExactSum(_, _)
ExactSum(samples, n) ==
    IF n = 0 THEN FZero
    ELSE IF samples[n] = FInf \/ ExactSum(samples, n - 1) = FInf THEN FInf
    ELSE FAdd(2^20, ExactSum(samples, n - 1), samples[n])

\* the sum of the samples divided by their number, as a float32
SumOverCount(samples) ==
    IF ExactSum(samples, Len(samples)) = FInf THEN FInf
    ELSE FDivInt(FLT_MANT_DIG, ExactSum(samples, Len(samples)), Len(samples))

BoxFilterOf(positive, v) ==
    /\ Len(positive) = 0 => v = FZero
    /\ Len(positive) = 1 => v = positive[1]
    /\ Len(positive) >= 1 => v = SumOverCount(positive)

\* C14: every decimator gives, for one ml x ml block, exactly 0 when no sample
\* of the block is greater than zero, exactly v when v is the only sample
\* greater than zero, and otherwise the sum of the samples greater than zero
\* divided by their count
C14_BoxFilterOfPositives ==
    Decimated =>
        \A i \in 1..Len(out) :
            BoxFilterOf(PositiveOfCell((i - 1) \div width, (i - 1) % width), out[i])

\* the rows the decimation is to give
RowsExpected ==
    IF writer = "pipeline" THEN Min(Len(ds) \div ml, 100)
    ELSE IF max_rows > 0 THEN Min(Len(ds) \div ml, max_rows)
    ELSE Len(ds) \div ml

\* what the decimator of the run makes of the samples of one block that are
\* greater than zero
CellOf(positive) ==
    IF Len(positive) = 0 THEN FZero
    ELSE IF writer = "compare" THEN NanToNum(Mean(positive))
    ELSE Mean(positive)

StageRank(p) ==
    CASE p = "tiles" -> 1
      [] p = "layout" -> 2
      [] p = "serialize" -> 3
      [] p = "payload" -> 4
      [] p = "file" -> 5
      [] p = "done" -> 6
      [] OTHER -> 7

\* every tile has been compressed: its length is known
AllTilesBuilt == Len(compressed_tiles) = tiles_x * tiles_y

\* nothing of the entries, the layout or the buffer (the tile-offset slots with
\* it) exists before the compressed length of every tile is known
ResultsInOrder ==
    writer \in TiledWriters =>
        /\ (entries # <<>> \/ layout.total_size # 0 \/ buf # <<>> \/ ptrs # <<>>)
              => AllTilesBuilt
        /\ layout.total_size # 0 => entries # <<>>
        /\ buf # <<>> => layout.total_size # 0
        /\ file # <<>> => buf # <<>> /\ pc = "done"

\* the position only moves forward and each result is assigned in its own stage
StageStep ==
    writer \in TiledWriters =>
        /\ pc' # pc => StageRank(pc') > StageRank(pc)
        /\ compressed_tiles' # compressed_tiles => pc = "tiles" /\ pc' = "tiles"
        /\ entries' # entries => pc = "tiles" /\ pc' = "layout"
        /\ layout' # layout => pc = "layout" /\ pc' = "serialize"
        /\ (ptrs' # ptrs \/ pos' # pos) => pc = "serialize"
        /\ buf' # buf => pc \in {"serialize", "payload"} /\ pc' # pc
        /\ file' # file => pc = "file" /\ pc' = "done"

\* C16: a tiled writer runs its stages once each and in the order build tiles,
\* build entries, plan layout, serialize, write file, without going back to a
\* stage, and no tile-offset slot is resolved before the compressed length of
\* every tile is known
C16_StagesOnceInOrder == []ResultsInOrder /\ [][StageStep]_vars

\* a raster of several tiles went through every stage and its file is written
C16_Witness ==
    /\ Written
    /\ writer \in TiledWriters
    /\ tiles_x * tiles_y > 1
    /\ AllTilesBuilt
    /\ Len(ptrs) > 0
    /\ file = buf

\* a stage of the writer has raised
Failed == pc = "error"

\* a file exists only once the whole buffer is built, and holds that buffer
FileIsWholeBuffer ==
    /\ Failed => file = <<>>
    /\ file # <<>> => /\ pc = "done"
                      /\ file = buf
                      /\ Len(file) = layout.total_size

\* the file is written in the last step only, from the finished buffer
FileWrittenLast ==
    file' # file => pc = "file" /\ pc' = "done" /\ file' = buf

\* C17: output is never persisted in part: the file is opened and written only
\* after the complete buffer is built, and when a stage fails (tile extraction,
\* compression, packing of entries or offsets, the payload) no file is created
C17_NoPartialOutput == []FileIsWholeBuffer /\ [][FileWrittenLast]_vars

\* a stage failed after a tile was compressed, or after the buffer was
\* allocated and partly filled, and there is no file
C17_Witness ==
    /\ Failed
    /\ compressed_tiles # <<>> \/ buf # <<>>
    /\ file = <<>>

\* the arguments of a tiled writer that the claim calls invalid
InvalidCall ==
    \/ num_bands = 0
    \/ band_len # width * height
    \/ width <= 0
    \/ height <= 0

\* C18: a tiled writer rejects invalid input (an empty band list, bands whose
\* sample count is not width * height, a width or height that is not positive)
\* before the first tile is extracted or compressed, and writes no file
C18_InvalidInputRejected ==
    (writer \in TiledWriters /\ InvalidCall) =>
        /\ compressed_tiles = <<>>
        /\ file = <<>>
        /\ pc \in {"start", "error"}

\* once allocated the buffer keeps the planned length, and a payload of another
\* length than its planned region gets no further than the raise
BufferKeepsLength ==
    /\ buf # <<>> => Len(buf) = layout.total_size
    /\ file # <<>> => Len(file) = layout.total_size
    /\ (writer = "minimal" /\ rgba_len # width * height * 4) =>
           /\ pc \notin {"file", "done"}
           /\ file = <<>>

\* no step changes the length of the allocated buffer
BufferLengthStep == buf # <<>> => Len(buf') = Len(buf)

\* C20: every write lands inside [0, total_size): the buffer still has length
\* total_size when the file is written, and a payload whose length differs
\* from its planned region (rgba_data that is not width * height * 4 bytes in
\* the stripped writer) raises instead of changing the length of the buffer
C20_WritesStayInside == []BufferKeepsLength /\ [][BufferLengthStep]_vars

\* the stripped writer was handed 9 bytes for a 2 x 1 raster and raised at the
\* payload, the buffer at its planned length
C20_Witness ==
    /\ Failed
    /\ writer = "minimal"
    /\ rgba_len = 9
    /\ width * height * 4 = 8
    /\ buf # <<>>
    /\ Len(buf) = layout.total_size

\* the total size of the file, a tile offset or an overflow pointer is more
\* than 2^32 - 1
ExceedsU32 ==
    \/ ~BigFitsU32(layout.total_size)
    \/ \E k \in 1..Len(compressed_tiles) : ~BigFitsU32(LargeTilePos(k))
    \/ ~FitsU32(layout.data_offset)

\* C19: when the total file size, a tile offset or an overflow pointer exceeds
\* 2^32 - 1 the writer fails and writes no file: no file of a total size beyond
\* that range is ever written
C19_NoFileBeyondU32 ==
    /\ (pc \in {"serialize", "file", "done", "error"} /\ ExceedsU32) =>
           pc \in {"serialize", "error"} /\ file = <<>>
    /\ file # <<>> => BigFitsU32(file.len)

\* the little-endian bytes of values j.. of entry e, in its declared type
RECURSIVE ValueBytes(_, _)
ValueBytes(e, j) ==
    IF j > Len(e.values) THEN <<>>
    ELSE (CASE e.typ = TYPE_SHORT -> U16(e.values[j])
            [] e.typ = TYPE_LONG -> U32(e.values[j])
            [] e.typ = TYPE_DOUBLE -> F64(e.values[j]))
         \o ValueBytes(e, j + 1)

\* the bytes of f at offsets off .. off + n - 1
FileBytes(f, off, n) == [k \in 1..n |-> f[off + k]]

\* the overflow bytes taken by the entries before entry i: the byte size of
\* each entry of more than 4 bytes, padded to even
RECURSIVE OverflowBefore(_)
OverflowBefore(i) ==
    IF i <= 1 THEN 0
    ELSE OverflowBefore(i - 1)
         + (IF byte_size(entries[i - 1]) > 4
            THEN byte_size(entries[i - 1]) + (byte_size(entries[i - 1]) % 2)
            ELSE 0)

\* the value field of entry i holds the entry's values, left-justified and
\* zero-padded
HeldInline(i) ==
    FileBytes(file, FileEntryOff(i) + 8, 4)
       = ValueBytes(entries[i], 1)
         \o [k \in 1..(4 - byte_size(entries[i])) |-> <<"b", 0>>]

\* the value field of entry i points into the overflow region, behind the
\* blocks of the entries before it, at count values of the declared type (the
\* entry's own, or the tile offsets filled in by the serializer)
HeldInOverflow(i) ==
    /\ AreInts(file, FileEntryOff(i) + 8, 4)
    /\ FileValueField(file, i) = layout.overflow_offset + OverflowBefore(i)
    /\ FileValueField(file, i) + byte_size(entries[i]) <= layout.data_offset
    /\ IF entries[i].tag = TAG_TILE_OFFSETS
       THEN AreInts(file, FileValueField(file, i), 4 * entries[i].count)
       ELSE FileBytes(file, FileValueField(file, i), byte_size(entries[i]))
               = ValueBytes(entries[i], 1)

\* C21: the 4-byte value field of every entry holds the entry's own values
\* (little-endian, left-justified, zero-padded) exactly when typeSize * count
\* is at most 4, and otherwise a pointer into the overflow region at which
\* count values of the declared type are written; inline entries take no
\* overflow space; so for every band count, 1 and 2 among them
C21_InlineOrPointer ==
    Written =>
        /\ FileEntryCount(file) = Len(entries)
        /\ \A i \in 1..Len(entries) :
              /\ FileTag(file, i) = entries[i].tag
              /\ FileType(file, i) = entries[i].typ
              /\ FileCount(file, i) = entries[i].count
              /\ byte_size(entries[i]) = type_sizes(entries[i].typ) * entries[i].count
              /\ IF byte_size(entries[i]) <= 4
                 THEN HeldInline(i)
                 ELSE HeldInOverflow(i)
        /\ layout.data_offset
              = layout.overflow_offset + OverflowBefore(Len(entries) + 1)

\* a two-band, four-tile file: bits-per-sample is two shorts in the value
\* field, the tile offsets are behind a pointer
C21_Witness ==
    /\ Written /\ Tiled
    /\ num_bands = 2
    /\ Len(compressed_tiles) = 4
    /\ FileBytes(file, FileEntryOff(FileFind(file, TAG_BITS_PER_SAMPLE)) + 8, 4)
          = U16(32) \o U16(32)
    /\ FileValueField(file, FileFind(file, TAG_TILE_OFFSETS)) >= layout.overflow_offset

\* C22: the file holds exactly one image directory: bytes 0..7 are 'II', 42
\* and the IFD offset 8, the 2-byte entry count at offset 8 is the number of
\* entries written, and the 4-byte next-IFD pointer at 8 + 2 + 12 * entryCount,
\* right behind the last entry and right before the overflow region, is 0
C22_OneDirectory ==
    Written =>
        /\ FileBytes(file, 0, 8)
              = << <<"b", 73>>, <<"b", 73>>, <<"b", 42>>, <<"b", 0>>,
                   <<"b", 8>>, <<"b", 0>>, <<"b", 0>>, <<"b", 0>> >>
        /\ AreInts(file, 8, 2)
        /\ FileEntryCount(file) = Len(entries)
        /\ \A i \in 1..Len(entries) : FileTag(file, i) = entries[i].tag
        /\ pos = 8 + 2 + 12 * FileEntryCount(file)
        /\ AreInts(file, 8 + 2 + 12 * FileEntryCount(file), 4)
        /\ ReadU32(file, 8 + 2 + 12 * FileEntryCount(file)) = 0
        /\ layout.overflow_offset = 8 + 2 + 12 * FileEntryCount(file) + 4

\* a tiled file of fifteen entries: the zero pointer is at 190 and the first
\* overflow block at 194
C22_Witness ==
    /\ Written /\ Tiled
    /\ FileEntryCount(file) = 15
    /\ ReadU32(file, 190) = 0
    /\ Len(ptrs) > 0
    /\ ptrs[1].ptr = 194


\* the sixteen shorts of the GeoKeyDirectory entry read back from a file
FileGeoKeys(f) ==
    [k \in 1..16 |-> FileShort(f, FileFind(f, TAG_GEO_KEY_DIRECTORY), k - 1)]

\* C23: the geo key directory in a file of a tiled Float32 writer is the
\* one write_minimal_geotiff emits for the same code: model type 2 with the
\* geographic key 2048 for codes in [4000, 5000), model type 1 with the
\* projected key 3072 for every other code
C23_SameGeoKeysAsMinimal ==
    (Written /\ Tiled) =>
        /\ FileHasTag(file, TAG_GEO_KEY_DIRECTORY)
        /\ FileCount(file, FileFind(file, TAG_GEO_KEY_DIRECTORY)) = Len(geo_keys)
        /\ FileGeoKeys(file) = geo_keys
        /\ FileGeoKeys(file)[8] = (IF 4000 <= epsg_code /\ epsg_code < 5000 THEN 2 ELSE 1)
        /\ FileGeoKeys(file)[13] = (IF 4000 <= epsg_code /\ epsg_code < 5000 THEN 2048 ELSE 3072)


\* the reports of the multilook scale checks made so far
ScaleReports == {k \in 1..Len(test) : "ml" \in DOMAIN test[k]}

\* C24: for each multilook factor the export checks (1, 4 and 8) the pixel
\* scale, the span of the pixel-edge bounds divided by the export width
\* chosen for that factor, is within 0.01 of the native spacing times the
\* factor, whatever the width of the source grid
C24_ScaleIsSpacingTimesMl ==
    \A k \in ScaleReports :
        /\ test[k].ml = MlChecked[k]
        /\ test[k].ps_x_ml
              = FDivInt(DBL_MANT_DIG,
                        FSub(DBL_MANT_DIG, export_bounds[3], export_bounds[1]),
                        test[k].ew)
        /\ FLess(FAbs(FDiff(test[k].ps_x_ml,
                            FMulInt(DBL_MANT_DIG, x_spacing, test[k].ml))),
                 Flt(1, 100))
        /\ test[k].status = "PASS"


\* the serialization has run and did not fail
Serialized == pc \in {"payload", "file", "done"}

\* the entry an overflow pointer was written for
EntryOfTag(tag) == entries[CHOOSE i \in 1..Len(entries) : entries[i].tag = tag]

\* the bytes [lo, hi) of overflow block k, in the order the pointers were written
BlockLo(k) == ptrs[k].ptr
BlockHi(k) == ptrs[k].ptr + byte_size(EntryOfTag(ptrs[k].tag))

\* C25: the layout step and the serializer agree on the overflow region: the
\* bytes reserved are the bytes the serializer's overflow cursor advances, so
\* after the last entry the cursor stands at the start of the payload; the
\* blocks are laid out in ascending tag order, pairwise disjoint, and none
\* reaches into the directory or into the payload
C25_PlanAndSerializerAgree ==
    Serialized =>
        /\ SerializeIFD.cur_overflow - layout.overflow_offset = layout.overflow_size
        /\ SerializeIFD.cur_overflow = layout.data_offset
        /\ Len(ptrs) = Len(layout.overflow_entries)
        /\ \A k \in 1..Len(ptrs) :
              /\ ptrs[k].tag = entries[layout.overflow_entries[k]].tag
              /\ layout.ifd_offset + layout.ifd_size <= BlockLo(k)
              /\ BlockLo(k) < BlockHi(k)
              /\ BlockHi(k) <= layout.data_offset
        /\ \A k \in 1..(Len(ptrs) - 1) :
              /\ ptrs[k].tag < ptrs[k + 1].tag
              /\ BlockHi(k) <= BlockLo(k + 1)

\* a three-band file of four tiles is serialized: seven arrays lie in the
\* overflow region, the first two back to back
C25_Witness ==
    /\ Serialized
    /\ Tiled
    /\ num_bands = 3
    /\ Len(compressed_tiles) = 4
    /\ Len(ptrs) = 7
    /\ BlockHi(1) = BlockLo(2)
    /\ SerializeIFD.cur_overflow = layout.data_offset


\* what the decimator that did not run makes of the samples of one block that
\* are greater than zero: read_bands for a run of read_nisar_band_stripe,
\* read_nisar_band_stripe for a run of read_bands
OtherCellOf(positive) ==
    IF writer = "compare"
    THEN IF Len(positive) > 0 THEN Mean(positive) ELSE FZero
    ELSE NanToNum(NanMean(positive))

\* the rows the decimator that did not run gives when it is called for the
\* rows the run has given: read_bands takes a limit of 0 for no limit
OtherRows ==
    IF writer = "compare" THEN height
    ELSE IF height # 0 THEN Min(Len(ds) \div EffectiveMl(ml), height)
    ELSE Len(ds) \div EffectiveMl(ml)

\* C26: read_bands and read_nisar_band_stripe, called on the same grid with
\* the same ml for the same number of output rows, give the same output grid,
\* cell by cell, the cells without a sample greater than zero included
C26_DecimatorsAgree ==
    Decimated =>
        /\ height = OtherRows
        /\ \A i \in 1..Len(out) :
              out[i] = OtherCellOf(PositiveOfCell((i - 1) \div width, (i - 1) % width))


\* the most doublings looked for on exit of the loop
MaxDoublings == 8

\* on exit the factor is ml * 2^k for the smallest k that brings the export
\* width to 8192 or below
MlExitSmallest ==
    pc = "ml_done" =>
        /\ \E k \in 0..MaxDoublings :
              /\ export_ml = ml * 2^k
              /\ h5.width \div (ml * 2^k) <= 8192
              /\ \A j \in 0..(k - 1) : h5.width \div (ml * 2^j) > 8192
        /\ width = h5.width \div export_ml
        /\ width <= 8192

\* C27: the effective multilook loop terminates for every source width >= 0
\* and every starting factor ml >= 1, and on exit effective_ml = ml * 2^k for
\* the smallest k >= 0 with source_width div effective_ml <= 8192, so the
\* export width never exceeds 8192
C27_LoopTerminates == []MlExitSmallest /\ <>(pc = "ml_done")

\* the loop has ended after seven doublings for a million columns
C27_Witness ==
    /\ pc = "ml_done"
    /\ h5.width = 1000000
    /\ ml = 1
    /\ export_ml = 128
    /\ width = 7812


\* the handler has handed the bounds of the first rows of its export to the
\* writer: test_nisar_pipeline always does, compare-writers.py when the row
\* limit cuts the grid
RowSubset ==
    /\ pc \notin {"export", "error"}
    /\ \/ writer = "pipeline"
       \/ writer = "compare" /\ height < FullRows

\* the vertical pixel scale of the whole export and the one the writer
\* derives from the bounds it was handed
FullVerticalScale ==
    FDivInt(DBL_MANT_DIG, FSub(DBL_MANT_DIG, export_bounds[4], export_bounds[2]),
            FullRows)
DerivedVerticalScale ==
    FDivInt(DBL_MANT_DIG, FSub(DBL_MANT_DIG, bounds[4], bounds[2]), height)

\* minX, maxX and maxY are kept, minY = maxY - rows * fullVerticalPixelScale,
\* and the file's tiepoint is the upper-left corner of the full bounds
SubsetBoundsKept ==
    /\ bounds[1] = export_bounds[1]
    /\ bounds[3] = export_bounds[3]
    /\ bounds[4] = export_bounds[4]
    /\ bounds[2] = FSub(DBL_MANT_DIG, export_bounds[4],
                        FMulInt(DBL_MANT_DIG, FullVerticalScale, height))
    /\ Written =>
          /\ FileDouble(file, FileFind(file, TAG_MODEL_TIEPOINT), 3) = export_bounds[1]
          /\ FileDouble(file, FileFind(file, TAG_MODEL_TIEPOINT), 4) = export_bounds[4]
          /\ FilePixelScale(1) = DerivedVerticalScale

VerifyReports == {k \in 1..Len(test) : "center_match" \in DOMAIN test[k]}

\* the file read back carries the pixel-edge bounds the handler computed
CarriesEdgeBounds(k) ==
    /\ test[k].actual_bounds[1] = export_bounds[1]
    /\ test[k].actual_bounds[4] = export_bounds[4]
    /\ WithinRounding(test[k].actual_bounds[2], export_bounds[2],
                      export_bounds[2], export_bounds[4])
    /\ WithinRounding(test[k].actual_bounds[3], export_bounds[3],
                      export_bounds[1], export_bounds[3])

\* C29: for every positive spacing, the check that the written bounds differ
\* from the pixel-center bounds passes whenever the file carries the
\* pixel-edge bounds: the bounds read back are not all within 1.0 of the raw
\* pixel-center bounds
C29_CenterCheckPasses ==
    \A k \in VerifyReports :
        (FPositive(x_spacing) /\ FPositive(y_spacing) /\ CarriesEdgeBounds(k))
            => /\ ~test[k].center_match
               /\ \E j \in 1..4 :
                     ~FLess(FAbs(FDiff(test[k].actual_bounds[j], MetaBounds[j])),
                            FFromInt(1))


\* the sorted entry list and the layout each copy of the tiled writer makes
\* of the arguments and compressed tiles of the run
CopyEntries(w) ==
    SortByTag(CASE w = "float32" -> EntriesFloat32
                [] w = "pipeline" -> EntriesPipeline
                [] w = "compare" -> EntriesCompare)
CopyLayout(w) == TiledLayout(CopyEntries(w))

====
